---- MODULE Spec2Model ----
(***************************************************************************)
(* A model of WebWise (src/app.py): a Streamlit application that ingests   *)
(* web pages, indexes their chunks per source and answers questions over   *)
(* the indexed sources.                                                    *)
(*                                                                         *)
(* Text is modelled as a sequence of symbols (a symbol is an indivisible   *)
(* piece of text: a word, a marker such as "TITLE:", a separator).         *)
(* Python's `needle in hay` is containment of a contiguous subsequence,    *)
(* and str.lower() maps every symbol to its lower-case form.               *)
(***************************************************************************)
EXTENDS Integers, Sequences, FiniteSets, TLC

VARIABLES
  websites,            \* st.session_state.websites: ordered dict url -> vector index
  website_metadata,    \* st.session_state.website_metadata: ordered dict url -> metadata
  processing_errors,   \* st.session_state.processing_errors: ordered dict url -> message
  websites_processed,  \* st.session_state.websites_processed
  chat_history,        \* st.session_state.chat_history
  message_history,     \* st.session_state.message_history
  db_dir,              \* the directory DB_DIR: [exists, entries]
  cache_dir,           \* the directory CACHE_DIR: [exists, entries]
  pc,                  \* "idle", or "batch" while the url_form handler loops
  batch,               \* the running url_form handler: [url_list, i, attempted]
  last,                \* the locals of the chat question handler when it was the last handler to run
  arg,                 \* input of the function under study (function specifications)
  ret                  \* its result

vars == <<websites, website_metadata, processing_errors, websites_processed,
          chat_history, message_history, db_dir, cache_dir, pc, batch, last,
          arg, ret>>

session == <<websites, website_metadata, processing_errors, websites_processed,
             chat_history, message_history, db_dir, cache_dir, pc, batch, last>>

\* Python's None where a text, a path or a message is expected
None == <<>>

(***************************************************************************)
(* Text                                                                    *)
(***************************************************************************)

\* str.lower() on one symbol
LowerSym(c) ==
  CASE c = "Alpha" -> "alpha"
    [] c = "ALPHA" -> "alpha"
    [] c = "Beta" -> "beta"
    [] c = "BETA" -> "beta"
    [] c = "Summary" -> "summary"
    [] c = "Show" -> "show"
    [] c = "About" -> "about"
    [] c = "Image" -> "image"
    [] c = "What" -> "what"
    [] c = ".PNG" -> ".png"
    [] OTHER -> c

\* str.lower()
Lower(s) == [i \in DOMAIN s |-> LowerSym(s[i])]

\* Python's `needle in hay`
Contains(hay, needle) ==
  \E i \in 0..(Len(hay) - Len(needle)) :
     SubSeq(hay, i + 1, i + Len(needle)) = needle

\* any(term in text for term in terms)
ContainsAny(text, terms) == \E t \in terms : Contains(text, t)

RECURSIVE Concat(_)
\* "".join(parts)
Concat(parts) ==
  IF parts = <<>> THEN <<>> ELSE Head(parts) \o Concat(Tail(parts))

RECURSIVE Join(_, _)
\* sep.join(parts)
Join(sep, parts) ==
  IF parts = <<>> THEN <<>>
  ELSE IF Len(parts) = 1 THEN Head(parts)
  ELSE Head(parts) \o sep \o Join(sep, Tail(parts))

SeqRange(s) == {s[i] : i \in DOMAIN s}

(***************************************************************************)
(* Ordered dictionaries (Python dict keeps insertion order; assigning to   *)
(* an existing key keeps the key's position).                              *)
(***************************************************************************)

DictKeys(d) == [i \in DOMAIN d |-> d[i][1]]

DictKeySet(d) == {d[i][1] : i \in DOMAIN d}

DictHas(d, k) == k \in DictKeySet(d)

DictGet(d, k) == d[CHOOSE i \in DOMAIN d : d[i][1] = k][2]

DictSet(d, k, v) ==
  IF DictHas(d, k)
  THEN [i \in DOMAIN d |-> IF d[i][1] = k THEN <<k, v>> ELSE d[i]]
  ELSE Append(d, <<k, v>>)

(***************************************************************************)
(* URLs                                                                    *)
(***************************************************************************)

\* a URL as urlparse() sees it
Url(scheme, netloc, path) == [scheme |-> scheme, netloc |-> netloc, path |-> path]

UA == Url("https", <<"Alpha">>, "/")
UA2 == Url("https", <<"Alpha">>, "/page2")
UB == Url("https", <<"beta">>, "/")
UWB == Url("https", <<"www", "beta">>, "/")
UBad == Url("", <<>>, "not a url")

get_domain(url) == url.netloc

format_source_name(url) == get_domain(url)

is_valid_url(url) == url.scheme # "" /\ url.netloc # <<>>

\* hashlib.md5(url.encode()).hexdigest(), taken as collision free
md5(x) == <<"md5", x>>

(***************************************************************************)
(* Image pipeline                                                          *)
(*                                                                         *)
(* An <img> element is a record: src, alt, caption, heading, surrounding   *)
(* (texts) and resp, what the server answers when the image is requested:  *)
(* [status, content_type, content_length, stream, readable, width, height].*)
(* A directory is [exists, entries].                                       *)
(***************************************************************************)

DB_DIR == "chroma_db"
CACHE_DIR == "image_cache"

MaxImages == 10
MinImageDim == 50
MaxImageDim == 3000
MaxImageBytes == 5 * 1024 * 1024

StartsWith(s, p) == Len(p) <= Len(s) /\ SubSeq(s, 1, Len(p)) = p

ImageExtensions == {".jpg", ".jpeg", ".png", ".gif", ".webp"}

ExtensionSymbols == ImageExtensions \cup {".svg", ".PNG"}

\* os.path.splitext(path)[1].lower() of an image URL: its last symbol, in
\* lower case, when that symbol is an extension
url_ext(image_url) ==
  IF image_url # <<>> /\ image_url[Len(image_url)] \in ExtensionSymbols
  THEN LowerSym(image_url[Len(image_url)])
  ELSE ""

generate_image_filename(url, image_url) ==
  LET ext == url_ext(image_url)
  IN  [base |-> md5(url), img_hash |-> md5(image_url),
       ext |-> IF ext = "" \/ ext \notin ImageExtensions THEN ".jpg" ELSE ext]

\* os.path.join(CACHE_DIR, filename)
img_path_of(filename) == <<CACHE_DIR, filename>>

\* line 239 with the size test dropped
too_large_never(resp) == FALSE

\* line 239: the declared Content-Length is over 5 MiB
too_large(resp) == resp.content_length > MaxImageBytes

\* download_and_save_image against the cache directory's entries `cache`:
\* [path, cache], path = None when the candidate is discarded
download_and_save_image(resp, filename, cache) ==
  IF resp.status # "ok"
  THEN [path |-> None, cache |-> cache]
  ELSE IF ~StartsWith(resp.content_type, <<"image/">>)
  THEN [path |-> None, cache |-> cache]
  ELSE IF too_large(resp)
  THEN [path |-> None, cache |-> cache]
  ELSE IF resp.stream # "ok"
  THEN \* open(img_path, 'wb') created the file; the outer except returns None
       [path |-> None, cache |-> cache \cup {filename}]
  ELSE IF ~resp.readable
  THEN [path |-> None, cache |-> cache \ {filename}]
  ELSE IF resp.width < MinImageDim \/ resp.height < MinImageDim
            \/ resp.width > MaxImageDim \/ resp.height > MaxImageDim
  THEN [path |-> None, cache |-> cache \ {filename}]
  ELSE [path |-> img_path_of(filename), cache |-> cache \cup {filename}]

SkipMarkers ==
  {<<"icon">>, <<"logo">>, <<"pixel.">>, <<"tracker">>, <<"advertisement">>,
   <<"ad.">>, <<"/ad/">>}

\* urljoin(url, src) for a src that is not absolute
urljoin(url, src) ==
  <<IF url.scheme = "https" THEN "https://" ELSE "http://">>
    \o url.netloc \o <<"/">> \o src

IsAbsolute(src) == StartsWith(src, <<"http://">>) \/ StartsWith(src, <<"https://">>)

NoImageInfo == [found |-> FALSE]

\* extract_image_info: NoImageInfo (None), or the image's record
extract_image_info(img, url) ==
  LET image_url == IF img.src # <<>> /\ ~IsAbsolute(img.src)
                   THEN urljoin(url, img.src) ELSE img.src
  IN  IF image_url = <<>> \/ (~IsAbsolute(image_url))
      THEN NoImageInfo
      ELSE IF ContainsAny(Lower(image_url), SkipMarkers)
      THEN NoImageInfo
      ELSE [found |-> TRUE, url |-> image_url, alt_text |-> img.alt, caption |-> img.caption,
            heading |-> img.heading, surrounding_text |-> img.surrounding]

\* caption or alt_text or heading or f"Image from {domain}"
image_description(info, url) ==
  IF info.caption # <<>> THEN info.caption
  ELSE IF info.alt_text # <<>> THEN info.alt_text
  ELSE IF info.heading # <<>> THEN info.heading
  ELSE <<"Image from ">> \o get_domain(url)

cap_reached_off_by_one(image_count) == image_count > MaxImages

\* if image_count >= 10: break
cap_reached(image_count) == image_count >= MaxImages

RECURSIVE images_loop(_, _, _, _)
\* the for loop of extract_images_from_website from element k on; st is
\* [images, image_count, cache, downloads]. Every image record carries elem,
\* the position of its <img> element, and downloads lists the positions of
\* the elements whose image was requested.
images_loop(url, imgs, k, st) ==
  IF k > Len(imgs) \/ cap_reached(st.image_count)
  THEN st
  ELSE LET info == extract_image_info(imgs[k], url)
       IN  IF ~info.found
           THEN images_loop(url, imgs, k + 1, st)
           ELSE LET filename == generate_image_filename(url, info.url)
                    got == download_and_save_image(imgs[k].resp, filename, st.cache)
                    dl == Append(st.downloads, k)
                IN  IF got.path # None
                    THEN images_loop(url, imgs, k + 1,
                           [images |-> Append(st.images,
                               [url |-> info.url, alt_text |-> info.alt_text,
                                caption |-> info.caption, heading |-> info.heading,
                                surrounding_text |-> info.surrounding_text,
                                local_path |-> got.path,
                                description |-> image_description(info, url),
                                elem |-> k]),
                            image_count |-> st.image_count + 1,
                            cache |-> got.cache, downloads |-> dl])
                    ELSE images_loop(url, imgs, k + 1,
                           [st EXCEPT !.cache = got.cache, !.downloads = dl])

\* extract_images_from_website(url, soup, page_text) with the <img> elements
\* of soup given as imgs: [images, image_count, cache, downloads]
extract_images_from_website(url, imgs, cache) ==
  images_loop(url, imgs, 1,
    [images |-> <<>>, image_count |-> 0, cache |-> cache, downloads |-> <<>>])

(***************************************************************************)
(* Content extraction                                                      *)
(*                                                                         *)
(* env is what the network and the parsers give for one call:              *)
(*   article      "ok", "ArticleException" or "Exception": how             *)
(*                Article.download()/parse() ends                          *)
(*   title, text  article.title and clean_text(article.text)               *)
(*   authors, publish_date                                                 *)
(*   fetch        "ok", "error" (requests.get + raise_for_status) or       *)
(*                "parse_error" (the markup cannot be parsed or walked)    *)
(*   harvest      "ok" or "error": whether image harvesting raises         *)
(*   description, keywords, headings, tables, lists: what the markup holds *)
(*   has_title, soup_title: soup.title and soup.title.string; body_text    *)
(*   imgs         the page's <img> elements                                *)
(***************************************************************************)

\* a key the metadata dict does not hold
Absent == <<"<absent>">>

NoMetadata == [absent |-> TRUE]

NL == "\n"
NLNL == "\n\n"

\* the block with the MAIN CONTENT section emitted unconditionally
enhanced_content_always_body(title, description, headings, main_text, tables, lists) ==
  (IF title # <<>> THEN <<"TITLE:", " ">> \o title \o <<NLNL>> ELSE <<>>)
  \o (IF description # <<>>
      THEN <<"DESCRIPTION:", " ">> \o description \o <<NLNL>> ELSE <<>>)
  \o (IF headings # <<>>
      THEN <<"HEADINGS:", NL>> \o Join(<<NL>>, headings) \o <<NLNL>> ELSE <<>>)
  \o <<"MAIN CONTENT:", NL>> \o main_text \o <<NLNL>>
  \o (IF tables # <<>>
      THEN <<"TABLES:", NL>> \o Join(<<NLNL>>, tables) \o <<NLNL>> ELSE <<>>)
  \o (IF lists # <<>>
      THEN <<"LISTS:", NL>> \o Join(<<NLNL>>, lists) \o <<NLNL>> ELSE <<>>)

\* lines 162-174: the labelled text block
enhanced_content(title, description, headings, main_text, tables, lists) ==
  (IF title # <<>> THEN <<"TITLE:", " ">> \o title \o <<NLNL>> ELSE <<>>)
  \o (IF description # <<>>
      THEN <<"DESCRIPTION:", " ">> \o description \o <<NLNL>> ELSE <<>>)
  \o (IF headings # <<>>
      THEN <<"HEADINGS:", NL>> \o Join(<<NL>>, headings) \o <<NLNL>> ELSE <<>>)
  \o (IF main_text # <<>>
      THEN <<"MAIN CONTENT:", NL>> \o main_text \o <<NLNL>> ELSE <<>>)
  \o (IF tables # <<>>
      THEN <<"TABLES:", NL>> \o Join(<<NLNL>>, tables) \o <<NLNL>> ELSE <<>>)
  \o (IF lists # <<>>
      THEN <<"LISTS:", NL>> \o Join(<<NLNL>>, lists) \o <<NLNL>> ELSE <<>>)

\* line 179, were empty parts left out as in the labelled text block
title_body_content_skip_empty(title, text) ==
  (IF title # <<>> THEN <<"TITLE:", " ">> \o title \o <<NLNL>> ELSE <<>>)
  \o (IF text # <<>> THEN <<"MAIN CONTENT:", NL>> \o text ELSE <<>>)

\* f"TITLE: {title}\n\nMAIN CONTENT:\n{text}"
title_body_content(title, text) ==
  <<"TITLE:", " ">> \o title \o <<NLNL, "MAIN CONTENT:", NL>> \o text

Raised(url, cache, tried) ==
  [status |-> "raise", error |-> <<"Failed to extract content from">>,
   content |-> <<>>, metadata |-> NoMetadata, path |-> "none",
   fallback_tried |-> tried, cache |-> cache]

Returned(content, metadata, path, cache, tried) ==
  [status |-> "ok", error |-> <<>>, content |-> content, metadata |-> metadata,
   path |-> path, fallback_tried |-> tried, cache |-> cache]

\* which exceptions of the article-reader strategy start the raw-markup
\* fallback
falls_back_on_any(exc) == exc \in {"ArticleException", "Exception"}

\* except ArticleException as e:
falls_back_on(exc) == exc = "ArticleException"

\* extract_website_content(url) under env, against the cache directory's
\* entries `cache`: [status, error, content, metadata, path, fallback_tried,
\* cache]
extract_website_content(url, env, cache) ==
  IF ~is_valid_url(url)
  THEN [status |-> "raise", error |-> <<"Invalid URL:">>, content |-> <<>>,
        metadata |-> NoMetadata, path |-> "none", fallback_tried |-> FALSE,
        cache |-> cache]
  ELSE IF env.article = "ok"
  THEN LET metadata == [title |-> env.title, authors |-> env.authors,
                        publish_date |-> env.publish_date, url |-> url,
                        domain |-> get_domain(url), description |-> Absent,
                        keywords |-> Absent, images |-> Absent]
           updated == [metadata EXCEPT !.description = env.description,
                                       !.keywords = env.keywords]
           harvest == extract_images_from_website(url, env.imgs, cache)
       IN  IF env.fetch # "ok"
           THEN Returned(title_body_content(env.title, env.text), metadata,
                         "degraded", cache, FALSE)
           ELSE IF env.harvest # "ok"
           THEN Returned(title_body_content(env.title, env.text), updated,
                         "degraded", cache, FALSE)
           ELSE Returned(enhanced_content(env.title, env.description,
                           env.headings, env.text, env.tables, env.lists),
                         [updated EXCEPT !.images = harvest.images],
                         "enriched", harvest.cache, FALSE)
  ELSE IF falls_back_on(env.article)
  THEN LET title == IF env.has_title THEN env.soup_title
                    ELSE <<"Unknown Title">>
           harvest == extract_images_from_website(url, env.imgs, cache)
       IN  IF env.fetch # "ok" \/ env.harvest # "ok"
           THEN Raised(url, cache, TRUE)
           ELSE Returned(title_body_content(title, env.body_text),
                         [title |-> title, authors |-> Absent,
                          publish_date |-> Absent, url |-> url,
                          domain |-> get_domain(url), description |-> Absent,
                          keywords |-> Absent, images |-> harvest.images],
                         "fallback", harvest.cache, TRUE)
  ELSE Raised(url, cache, FALSE)

(***************************************************************************)
(* Session state after the script's first run (lines 33-35, 765-780)       *)
(***************************************************************************)

EmptyDir == [exists |-> TRUE, entries |-> {}]

NoBatch == [url_list |-> <<>>, i |-> 1, attempted |-> <<>>]

NoQuestion == [asked |-> FALSE]

InitSession ==
  /\ websites = <<>>
  /\ website_metadata = <<>>
  /\ processing_errors = <<>>
  /\ websites_processed = FALSE
  /\ chat_history = <<>>
  /\ message_history = <<>>
  /\ db_dir = EmptyDir
  /\ cache_dir = EmptyDir
  /\ pc = "idle"
  /\ batch = NoBatch
  /\ last = NoQuestion

NotRun == [done |-> FALSE]

Result(v) == [done |-> TRUE, val |-> v]

(***************************************************************************)
(* extract_images_from_website on its own                                  *)
(***************************************************************************)

\* bound: the number of <img> elements of a page
MaxImgs == 12

\* bound: the number of elements of a page that are not plain good images
MaxDefects == 1

ImgNames ==
  <<"p1", "p2", "p3", "p4", "p5", "p6", "p7", "p8", "p9", "p10", "p11", "p12",
    "p13", "p14", "p15", "p16">>

DimCycle == << <<50, 50>>, <<3000, 3000>>, <<640, 480>>, <<50, 3000>> >>

Response(status, ctype, length, stream, readable, w, h) ==
  [status |-> status, content_type |-> ctype, content_length |-> length,
   stream |-> stream, readable |-> readable, width |-> w, height |-> h]

GoodResponse(w, h) == Response("ok", <<"image/", "png">>, 20000, "ok", TRUE, w, h)

ImgElement(src, resp) ==
  [src |-> src, alt |-> <<"cat">>, caption |-> <<>>, heading |-> <<"pets">>,
   surrounding |-> <<"a", "cat">>, resp |-> resp]

\* the k-th plain image of a page: accepted when downloaded
GoodImg(k) ==
  LET d == DimCycle[((k - 1) % Len(DimCycle)) + 1]
  IN  ImgElement(<<"img", ImgNames[k], ".png">>, GoodResponse(d[1], d[2]))

DefectKinds ==
  {"no_src", "logo", "http_error", "not_image", "too_large", "stream_error",
   "unreadable", "narrow", "wide", "short", "tall"}

\* the k-th element of a page when it is of defect kind
DefectImg(k, kind) ==
  LET src == <<"img", ImgNames[k], ".png">>
  IN  CASE kind = "no_src" -> ImgElement(<<>>, GoodResponse(640, 480))
        [] kind = "logo" ->
             ImgElement(<<"https://", "cdn", "/", "Logo", ".png">>,
                        GoodResponse(640, 480))
        [] kind = "http_error" ->
             ImgElement(src, Response("error", <<>>, 0, "ok", FALSE, 0, 0))
        [] kind = "not_image" ->
             ImgElement(src, Response("ok", <<"text/", "html">>, 20000, "ok",
                                      FALSE, 0, 0))
        [] kind = "too_large" ->
             ImgElement(src, Response("ok", <<"image/", "png">>, 6291456, "ok",
                                      TRUE, 640, 480))
        [] kind = "stream_error" ->
             ImgElement(src, Response("ok", <<"image/", "png">>, 20000, "error",
                                      FALSE, 0, 0))
        [] kind = "unreadable" ->
             ImgElement(src, Response("ok", <<"image/", "png">>, 20000, "ok",
                                      FALSE, 0, 0))
        [] kind = "narrow" -> ImgElement(src, GoodResponse(49, 640))
        [] kind = "wide" -> ImgElement(src, GoodResponse(3001, 640))
        [] kind = "short" -> ImgElement(src, GoodResponse(640, 49))
        [] kind = "tall" -> ImgElement(src, GoodResponse(640, 3001))

\* the page of n elements whose elements at DOMAIN kinds are defects
PageWith(n, kinds) ==
  [k \in 1..n |-> IF k \in DOMAIN kinds THEN DefectImg(k, kinds[k]) ELSE GoodImg(k)]

InitImages ==
  /\ InitSession
  /\ \E n \in 0..MaxImgs :
       \E at \in {a \in SUBSET (1..n) : Cardinality(a) <= MaxDefects} :
          \E kinds \in [at -> DefectKinds] :
             arg = [url |-> UA, imgs |-> PageWith(n, kinds)]
  /\ ret = NotRun

ApplyImages ==
  /\ ~ret.done
  /\ ret' = Result(extract_images_from_website(arg.url, arg.imgs, {}))
  /\ UNCHANGED <<session, arg>>

SpecImages == InitImages /\ [][ApplyImages]_vars

\* the positions of the <img> elements whose image was accepted
AcceptedElems(r) == {r.images[i].elem : i \in DOMAIN r.images}

\* C10: extract_images_from_website returns at most 10 images, in the order
\* their <img> elements were encountered, every returned image has
\* 50 <= width <= 3000 and 50 <= height <= 3000, and no candidate is
\* downloaded once 10 images have been accepted.
C10_AtMostTenValidImagesInOrder ==
  ret.done =>
    LET r == ret.val
    IN  /\ Len(r.images) <= 10
        /\ \A i, j \in DOMAIN r.images :
             i < j => r.images[i].elem < r.images[j].elem
        /\ \A i \in DOMAIN r.images :
             LET resp == arg.imgs[r.images[i].elem].resp
             IN  /\ 50 <= resp.width /\ resp.width <= 3000
                 /\ 50 <= resp.height /\ resp.height <= 3000
        /\ \A d \in DOMAIN r.downloads :
             Cardinality({e \in AcceptedElems(r) : e < r.downloads[d]}) < 10

\* a page with a candidate rejected for its dimensions, ten accepted images
\* and a further usable candidate that was never requested
C10_Witness ==
  /\ ret.done
  /\ Len(ret.val.images) = 10
  /\ \E k \in DOMAIN arg.imgs :
       /\ k > ret.val.images[10].elem
       /\ extract_image_info(arg.imgs[k], arg.url).found
       /\ k \notin SeqRange(ret.val.downloads)
  /\ \E d \in DOMAIN ret.val.downloads :
       /\ ret.val.downloads[d] \notin AcceptedElems(ret.val)
       /\ arg.imgs[ret.val.downloads[d]].resp.width = 3001

(***************************************************************************)
(* download_and_save_image on its own                                      *)
(***************************************************************************)

ContentTypes == {<<"image/", "png">>, <<"text/", "html">>, <<>>}

ContentLengths == {0, MaxImageBytes, MaxImageBytes + 1, 2 * MaxImageBytes}

Dimensions == {<<640, 480>>, <<49, 640>>, <<3001, 50>>}

Responses ==
  {Response(status, ctype, length, stream, readable, d[1], d[2]) :
     status \in {"ok", "error"}, ctype \in ContentTypes,
     length \in ContentLengths, stream \in {"ok", "error"},
     readable \in BOOLEAN, d \in Dimensions}

CachedName == generate_image_filename(UA, <<"https://", "cdn", "/", "a", ".png">>)

InitDownload ==
  /\ InitSession
  /\ arg \in [resp : Responses, filename : {CachedName},
              cache : {{}, {CachedName}}]
  /\ ret = NotRun

ApplyDownload ==
  /\ ~ret.done
  /\ ret' = Result(download_and_save_image(arg.resp, arg.filename, arg.cache))
  /\ UNCHANGED <<session, arg>>

SpecDownload == InitDownload /\ [][ApplyDownload]_vars

\* C11: a candidate whose response declares a Content-Length over 5 MiB is
\* rejected whatever its content-type, and one whose content-type is not an
\* image type is rejected; in both cases the cache directory is left as it
\* was (no file is written)
C11_OversizedOrNonImageRejected ==
  (ret.done /\ (arg.resp.content_length > 5 * 1024 * 1024
                 \/ ~StartsWith(arg.resp.content_type, <<"image/">>))) =>
    /\ ret.val.path = None
    /\ ret.val.cache = arg.cache

\* an image response that would otherwise be kept declares 5 MiB + 1
C11_Witness ==
  /\ ret.done
  /\ arg.resp.status = "ok"
  /\ StartsWith(arg.resp.content_type, <<"image/">>)
  /\ arg.resp.content_length = 5 * 1024 * 1024 + 1
  /\ arg.resp.stream = "ok" /\ arg.resp.readable /\ arg.resp.width = 640
  /\ arg.cache = {}
  /\ ret.val.path = None
  /\ ret.val.cache = {}

(***************************************************************************)
(* extract_website_content on its own                                      *)
(***************************************************************************)

Texts(word) == {<<>>, <<word>>}

ExtractEnvs ==
  [article : {"ok", "ArticleException", "Exception"},
   title : Texts("Example"), text : Texts("body"),
   authors : {<<>>}, publish_date : {None},
   fetch : {"ok", "error", "parse_error"}, harvest : {"ok", "error"},
   description : Texts("about"), keywords : {<<>>},
   headings : {<<>>, << <<"H1", ":", " ", "Intro">> >>},
   tables : {<<>>, << <<"Table 1", NL, "a", " | ", "b", NL>> >>},
   lists : {<<>>, << <<"Bulleted List:", NL, "x", NL, "y", NL, "z", NL>> >>},
   has_title : BOOLEAN, soup_title : {<<"Example">>},
   body_text : Texts("body"),
   imgs : {<<>>, <<GoodImg(1)>>}]

InitExtract ==
  /\ InitSession
  /\ arg \in [url : {UA, UBad}, env : ExtractEnvs]
  /\ ret = NotRun

ApplyExtract ==
  /\ ~ret.done
  /\ ret' = Result(extract_website_content(arg.url, arg.env, {}))
  /\ UNCHANGED <<session, arg>>

SpecExtract == InitExtract /\ [][ApplyExtract]_vars

\* the raw-markup fallback, once attempted, fails
FallbackFails(env) == env.fetch # "ok" \/ env.harvest # "ok"

\* C4 (as stated): for a valid URL, whenever the article-reader strategy
\* fails, whatever it raises, the raw-markup fallback is attempted, and the
\* call raises only when that fallback also fails.
C4_FallbackOnAnyFailure ==
  (ret.done /\ is_valid_url(arg.url)) =>
    /\ arg.env.article # "ok" => ret.val.fallback_tried
    /\ ret.val.status = "raise" =>
         (ret.val.fallback_tried /\ FallbackFails(arg.env))

\* C4 (amended): for a valid URL the raw-markup fallback is attempted exactly
\* when the article-reader strategy raises ArticleException, and the call then
\* raises exactly when the fallback fails; when the article reader raises any
\* other exception the call raises without attempting the fallback; when the
\* article reader succeeds the call never raises.
C4_FallbackOnArticleException ==
  (ret.done /\ is_valid_url(arg.url)) =>
    /\ ret.val.fallback_tried <=> arg.env.article = "ArticleException"
    /\ arg.env.article = "ArticleException" =>
         (ret.val.status = "raise" <=> FallbackFails(arg.env))
    /\ arg.env.article = "Exception" => ret.val.status = "raise"
    /\ arg.env.article = "ok" => ret.val.status = "ok"

\* the article reader raised something other than ArticleException, the page
\* itself is fetchable, and the call raised without trying the fallback
C4_Witness ==
  /\ ret.done
  /\ is_valid_url(arg.url)
  /\ arg.env.article = "Exception"
  /\ ~FallbackFails(arg.env)
  /\ ret.val.status = "raise"
  /\ ~ret.val.fallback_tried

AllEmpty(env) ==
  /\ env.title = <<>> /\ env.description = <<>> /\ env.headings = <<>>
  /\ env.text = <<>> /\ env.tables = <<>> /\ env.lists = <<>>

\* C5 (as stated): a successful extract_website_content never returns empty
\* content, on any of its three return paths.
C5_NeverEmptyContent ==
  (ret.done /\ ret.val.status = "ok") => ret.val.content # <<>>

\* C5 (amended): extract_website_content either raises with a message or
\* returns; the content returned is non-empty on the title+body degradation
\* path and on the raw-markup fallback path, and on the enriched path it is
\* empty exactly when title, description, headings, body, tables and lists
\* are all empty.
C5_EmptyOnlyWhenAllSectionsEmpty ==
  ret.done =>
    /\ ret.val.status = "raise" => ret.val.error # <<>>
    /\ ret.val.status = "ok" =>
         /\ ret.val.path \in {"enriched", "degraded", "fallback"}
         /\ ret.val.path \in {"degraded", "fallback"} => ret.val.content # <<>>
         /\ ret.val.path = "enriched" =>
              (ret.val.content = <<>> <=> AllEmpty(arg.env))

\* the enriched path returned an empty content as a success
C5_Witness ==
  /\ ret.done
  /\ ret.val.status = "ok"
  /\ ret.val.path = "enriched"
  /\ ret.val.content = <<>>

(***************************************************************************)
(* Section detection and documents (url_form handler, lines 864-892)       *)
(***************************************************************************)

\* the elif chain with the TABLES: test moved before the MAIN CONTENT: test
detect_section_tables_first(chunk) ==
  IF Contains(chunk, <<"TITLE:">>) THEN "title"
  ELSE IF Contains(chunk, <<"DESCRIPTION:">>) THEN "description"
  ELSE IF Contains(chunk, <<"HEADINGS:">>) THEN "headings"
  ELSE IF Contains(chunk, <<"TABLES:">>) THEN "tables"
  ELSE IF Contains(chunk, <<"MAIN CONTENT:">>) THEN "main_content"
  ELSE IF Contains(chunk, <<"LISTS:">>) THEN "lists"
  ELSE "unknown"

\* lines 866-878
detect_section(chunk) ==
  IF Contains(chunk, <<"TITLE:">>) THEN "title"
  ELSE IF Contains(chunk, <<"DESCRIPTION:">>) THEN "description"
  ELSE IF Contains(chunk, <<"HEADINGS:">>) THEN "headings"
  ELSE IF Contains(chunk, <<"MAIN CONTENT:">>) THEN "main_content"
  ELSE IF Contains(chunk, <<"TABLES:">>) THEN "tables"
  ELSE IF Contains(chunk, <<"LISTS:">>) THEN "lists"
  ELSE "unknown"

\* metadata.get("title", "")
metadata_title(metadata) ==
  IF metadata.title = Absent THEN <<>> ELSE metadata.title

\* lines 864-892: one Document per chunk
make_documents(url, title, chunks) ==
  [idx \in DOMAIN chunks |->
     [page_content |-> chunks[idx],
      metadata |-> [source |-> url, domain |-> get_domain(url), title |-> title,
                    section |-> detect_section(chunks[idx]), url |-> url,
                    chunk_id |-> idx - 1]]]

\* bound: the number of symbols of a chunk
MaxChunkLen == 3

ChunkSymbols ==
  {"TITLE:", "DESCRIPTION:", "HEADINGS:", "MAIN CONTENT:", "TABLES:", "LISTS:",
   "text"}

SeqsUpTo(S, n) == UNION {[1..k -> S] : k \in 0..n}

\* what else the source was split into
OtherChunks ==
  {<<>>, << <<"TITLE:", "text">> >>, << <<"text">> >>,
   << <<"MAIN CONTENT:", "text">>, <<"LISTS:", "text">> >>}

InitLabel ==
  /\ InitSession
  /\ \E chunk \in SeqsUpTo(ChunkSymbols, MaxChunkLen) :
       \E before \in OtherChunks, after \in OtherChunks :
          arg = [chunks |-> before \o <<chunk>> \o after, at |-> Len(before) + 1]
  /\ ret = NotRun

ApplyLabel ==
  /\ ~ret.done
  /\ ret' = Result(make_documents(UA, <<"Example">>, arg.chunks))
  /\ UNCHANGED <<session, arg>>

SpecLabel == InitLabel /\ [][ApplyLabel]_vars

SectionOf(k) == ret.val[k].metadata.section

\* C6 (as stated): every chunk containing "MAIN CONTENT:" is labelled
\* main_content, whatever else the chunk contains.
C6_MainContentAlwaysLabelled ==
  ret.done =>
    \A k \in DOMAIN arg.chunks :
       Contains(arg.chunks[k], <<"MAIN CONTENT:">>) => SectionOf(k) = "main_content"

\* C6 (amended): a chunk containing "MAIN CONTENT:" is labelled main_content
\* exactly when it contains none of "TITLE:", "DESCRIPTION:" and "HEADINGS:";
\* otherwise it is labelled title, description or headings, the first of these
\* whose marker it contains; the other chunks of the source play no part.
C6_MainContentUnlessEarlierMarker ==
  ret.done =>
    \A k \in DOMAIN arg.chunks :
       LET c == arg.chunks[k]
       IN  Contains(c, <<"MAIN CONTENT:">>) =>
             SectionOf(k) =
               (IF Contains(c, <<"TITLE:">>) THEN "title"
                ELSE IF Contains(c, <<"DESCRIPTION:">>) THEN "description"
                ELSE IF Contains(c, <<"HEADINGS:">>) THEN "headings"
                ELSE "main_content")

\* a chunk holding both "TITLE:" and "MAIN CONTENT:" labelled title, next to a
\* chunk holding "MAIN CONTENT:" labelled main_content
C6_Witness ==
  /\ ret.done
  /\ \E k \in DOMAIN arg.chunks :
       /\ Contains(arg.chunks[k], <<"TITLE:">>)
       /\ Contains(arg.chunks[k], <<"MAIN CONTENT:">>)
       /\ SectionOf(k) = "title"
  /\ \E k \in DOMAIN arg.chunks :
       /\ Contains(arg.chunks[k], <<"MAIN CONTENT:">>)
       /\ SectionOf(k) = "main_content"

(***************************************************************************)
(* Chunking: RecursiveCharacterTextSplitter(chunk_size, chunk_overlap,     *)
(* separators).split_text(content), lines 854-859.  The library is         *)
(* modelled by its first separator: the text is cut at "\n\n", empty       *)
(* pieces are dropped, and neighbouring pieces are merged while the chunk  *)
(* stays within chunk_size symbols; the overlap is not modelled.           *)
(***************************************************************************)

RECURSIVE split_on(_, _, _)
\* the pieces of s between occurrences of the symbol sep, cur being the piece
\* under construction
split_on(s, sep, cur) ==
  IF s = <<>> THEN (IF cur = <<>> THEN <<>> ELSE <<cur>>)
  ELSE IF Head(s) = sep
  THEN (IF cur = <<>> THEN <<>> ELSE <<cur>>) \o split_on(Tail(s), sep, <<>>)
  ELSE split_on(Tail(s), sep, Append(cur, Head(s)))

RECURSIVE merge_splits(_, _, _)
merge_splits(pieces, cur, chunk_size) ==
  IF pieces = <<>> THEN (IF cur = <<>> THEN <<>> ELSE <<cur>>)
  ELSE IF cur = <<>>
  THEN merge_splits(Tail(pieces), Head(pieces), chunk_size)
  ELSE IF Len(cur) + 1 + Len(Head(pieces)) <= chunk_size
  THEN merge_splits(Tail(pieces), cur \o <<NLNL>> \o Head(pieces), chunk_size)
  ELSE <<cur>> \o merge_splits(Tail(pieces), Head(pieces), chunk_size)

split_text(content, chunk_size) ==
  merge_splits(split_on(content, NLNL, <<>>), <<>>, chunk_size)

(***************************************************************************)
(* Chat question handler: source targeting and query rewriting             *)
(* A question is a sequence of words (single spaces between them).         *)
(***************************************************************************)

RECURSIVE last_match(_, _)
\* the scan of lines 1021-1025 without its break: the last match wins
last_match(urls, user_query) ==
  IF urls = <<>> THEN <<>>
  ELSE LET rest == last_match(Tail(urls), user_query)
       IN  IF rest # <<>> THEN rest
           ELSE IF Contains(Lower(user_query), Lower(get_domain(Head(urls))))
           THEN <<Head(urls)>>
           ELSE <<>>

RECURSIVE first_match(_, _)
\* lines 1020-1025: target_website as a list, <<>> for None
first_match(urls, user_query) ==
  IF urls = <<>> THEN <<>>
  ELSE IF Contains(Lower(user_query), Lower(get_domain(Head(urls))))
  THEN <<Head(urls)>>
  ELSE first_match(Tail(urls), user_query)

websites_to_search_last(sites, user_query) ==
  LET target_website == last_match(DictKeys(sites), user_query)
  IN  IF target_website # <<>> THEN target_website ELSE DictKeys(sites)

\* lines 1020-1027: the sources the question is searched in, in order
websites_to_search(sites, user_query) ==
  LET target_website == first_match(DictKeys(sites), user_query)
  IN  IF target_website # <<>> THEN target_website ELSE DictKeys(sites)

SummaryTerms ==
  {<<"summary">>, <<"summarize">>, <<"what", "is", "this", "website", "about">>,
   <<"overview">>}

SpecificTerms ==
  {<<"what", "does">>, <<"how", "does">>, <<"tell", "me", "about">>, <<"specific">>}

ImageTerms ==
  {<<"image">>, <<"picture">>, <<"photo">>, <<"figure">>, <<"diagram">>,
   <<"graph">>, <<"show", "me">>, <<"visual">>}

TopicStops == {"in", "on", "at", "?"}

\* re.search(r"about\s+(.+?)(?:\s+in|\s+on|\s+at|\s+\?|$)", q): the words
\* after the first "about" that has a word after it, up to the first following
\* stop word or the end; <<>> when there is no match
about_topic(q) ==
  LET starts == {i \in DOMAIN q : q[i] = "about" /\ i < Len(q)}
  IN  IF starts = {} THEN <<>>
      ELSE LET i == CHOOSE x \in starts : \A y \in starts : x <= y
               ends == {j \in (i + 1)..Len(q) :
                          j = Len(q) \/ q[j + 1] \in TopicStops}
               j == CHOOSE x \in ends : \A y \in ends : x <= y
           IN  SubSeq(q, i + 1, j)

SummarySuffix == <<"main", "content", "overview", "summary", "website", "purpose">>

DetailSuffix == <<"details", "information">>

ImageSuffix == <<"visual", "visual_content", "image", "picture", "photo", "figure">>

\* lines 1035-1044 with the specific-topic branch tested first
intent_query_specific_first(user_query) ==
  LET q == Lower(user_query)
  IN  IF ContainsAny(q, SpecificTerms) /\ about_topic(q) # <<>>
      THEN user_query \o about_topic(q) \o DetailSuffix
      ELSE IF ContainsAny(q, SummaryTerms)
      THEN user_query \o SummarySuffix
      ELSE user_query

\* lines 1035-1044: the query after the summary / specific-topic branches
intent_query(user_query) ==
  LET q == Lower(user_query)
  IN  IF ContainsAny(q, SummaryTerms)
      THEN user_query \o SummarySuffix
      ELSE IF ContainsAny(q, SpecificTerms) /\ about_topic(q) # <<>>
      THEN user_query \o about_topic(q) \o DetailSuffix
      ELSE user_query

\* lines 1046-1047
is_image_related(user_query) == ContainsAny(Lower(user_query), ImageTerms)

\* lines 1035-1049: search_query; the image branch assigns a query built
\* from user_query over the one the earlier branches built
rewrite_query(user_query) ==
  LET search_query == intent_query(user_query)
  IN  IF is_image_related(user_query)
      THEN user_query \o ImageSuffix
      ELSE search_query

\* bound: the number of words of a question
MaxQuestionLen == 3

\* bound: the number of indexed sources
MaxSources == 3

RewriteWords ==
  {"Summary", "overview", "what", "does", "about", "cats", "in", "show", "me",
   "Image", "tell"}

InitRewrite ==
  /\ InitSession
  /\ \E q \in SeqsUpTo(RewriteWords, MaxQuestionLen) : arg = [user_query |-> q]
  /\ ret = NotRun

ApplyRewrite ==
  /\ ~ret.done
  /\ ret' = Result(rewrite_query(arg.user_query))
  /\ UNCHANGED <<session, arg>>

SpecRewrite == InitRewrite /\ [][ApplyRewrite]_vars

\* what the summary or specific-topic branch appends to this question
IntentTerms(user_query) ==
  LET q == Lower(user_query)
  IN  IF ContainsAny(q, SummaryTerms) THEN SummarySuffix
      ELSE IF ContainsAny(q, SpecificTerms) /\ about_topic(q) # <<>>
      THEN about_topic(q) \o DetailSuffix
      ELSE <<>>

\* C8: for a question with image intent that also matches the summary
\* keywords (or the specific-topic phrasing), the retrieval query holds the
\* original question, the summary (or topic) terms and the image terms.
C8_RewritesAdditive ==
  (ret.done /\ is_image_related(arg.user_query)) =>
    /\ StartsWith(ret.val, arg.user_query)
    /\ Contains(ret.val, IntentTerms(arg.user_query))
    /\ Contains(ret.val, ImageSuffix)

\* C8, what the code does: with image intent the query is the question
\* followed by the image terms alone
C8_ImageRewriteOverwrites ==
  (ret.done /\ is_image_related(arg.user_query)) =>
    ret.val = arg.user_query \o ImageSuffix

\* a question with both summary intent and image intent has been rewritten
C8_Witness ==
  /\ ret.done
  /\ is_image_related(arg.user_query)
  /\ ContainsAny(Lower(arg.user_query), SummaryTerms)

(***************************************************************************)
(* websites_to_search on its own                                           *)
(***************************************************************************)

TargetWords == {"alpha", "ALPHA", "beta", "www", "hello"}

SourceUrls == {UA, UA2, UB, UWB}

\* the ordered dicts a batch can leave: distinct valid URLs in any order
SourceDicts ==
  {[i \in DOMAIN us |-> <<us[i], <<>> >>] :
     us \in {u \in SeqsUpTo(SourceUrls, MaxSources) :
               \A i, j \in DOMAIN u : i # j => u[i] # u[j]}}

InitTarget ==
  /\ InitSession
  /\ \E q \in SeqsUpTo(TargetWords, MaxQuestionLen) :
       \E d \in SourceDicts : arg = [sites |-> d, user_query |-> q]
  /\ ret = NotRun

ApplyTarget ==
  /\ ~ret.done
  /\ ret' = Result(websites_to_search(arg.sites, arg.user_query))
  /\ UNCHANGED <<session, arg>>

SpecTarget == InitTarget /\ [][ApplyTarget]_vars

\* the domain of url occurs in the question, case-insensitively
DomainOccurs(url, user_query) ==
  \E i \in 1..Len(user_query) :
     \E n \in 1..Len(user_query) :
        /\ i + n - 1 <= Len(user_query)
        /\ n = Len(url.netloc)
        /\ \A k \in 1..n :
             LowerSym(user_query[i + k - 1]) = LowerSym(url.netloc[k])

\* the indexed sources whose domain occurs in the question
Mentioned(sites, user_query) ==
  {u \in DictKeySet(sites) : DomainOccurs(u, user_query)}

\* C1 (as stated): the sources searched are the single source S when the
\* question contains the domain of exactly one indexed source S, and all
\* indexed sources in every other case.
C1_TargetOnlyWhenExactlyOne ==
  ret.done =>
    LET m == Mentioned(arg.sites, arg.user_query)
    IN  IF Cardinality(m) = 1
        THEN \E u \in m : ret.val = <<u>>
        ELSE ret.val = DictKeys(arg.sites)

\* C1 (amended): the sources searched are the single source S when S is the
\* first indexed source, in indexing order, whose domain the question contains
\* (case-insensitively), whether or not the domains of other indexed sources
\* occur in it too, and all indexed sources when the question contains the
\* domain of none.
C1_TargetIsFirstMentioned ==
  ret.done =>
    LET m == Mentioned(arg.sites, arg.user_query)
        keys == DictKeys(arg.sites)
    IN  IF m = {}
        THEN ret.val = keys
        ELSE \E i \in DOMAIN keys :
                /\ keys[i] \in m
                /\ \A j \in 1..(i - 1) : keys[j] \notin m
                /\ ret.val = <<keys[i]>>

\* the question contains the domains of two indexed sources, one of them in
\* another letter case, and only the first of them is searched
C1_Witness ==
  /\ ret.done
  /\ Cardinality(Mentioned(arg.sites, arg.user_query)) >= 2
  /\ Len(ret.val) = 1
  /\ Len(arg.sites) = 3
  /\ \E w \in SeqRange(arg.user_query) : w = "ALPHA"

(***************************************************************************)
(* Chat question handler (lines 1007-1132)                                 *)
(*                                                                         *)
(* A vector index is the sequence of its documents.  What a search gives   *)
(* is the environment's choice, senv[url] = [mmr, sim], each "hits",       *)
(* "none" (no result) or "raise".                                          *)
(***************************************************************************)

TopK == 8
HistoryWindow == 10
HistoryCap == 20

INSUFFICIENT ==
  <<"I don't have enough information to answer this question based on the websites you've provided. Could you rephrase your question or provide more websites with relevant information?">>

APOLOGY ==
  <<"I'm sorry, I encountered an error processing your request. Please try again.">>

COMPLETION == <<"<completion text>">>

FirstK(s, k) == SubSeq(s, 1, IF Len(s) < k THEN Len(s) ELSE k)

\* s[-k:]
LastK(s, k) == SubSeq(s, (IF Len(s) < k THEN 0 ELSE Len(s) - k) + 1, Len(s))

Reverse(s) == [i \in DOMAIN s |-> s[Len(s) + 1 - i]]

\* vectordb.max_marginal_relevance_search(search_query, k=8, ...) when it
\* finds documents: a selection of the index in an order of its own
mmr_hits(db) == FirstK(Reverse(db), TopK)

\* vectordb.similarity_search(search_query, k=8) when it finds documents
sim_hits(db) == FirstK(db, TopK)

\* lines 1051-1059, were the similarity search the only one
search_similarity_only(db, outcome) ==
  IF outcome.sim = "hits" THEN [raised |-> FALSE, docs |-> sim_hits(db)]
  ELSE IF outcome.sim = "none" THEN [raised |-> FALSE, docs |-> <<>>]
  ELSE [raised |-> TRUE, docs |-> <<>>]

\* lines 1051-1059: [raised, docs]; raised when the fallback search raises too
search(db, outcome) ==
  IF outcome.mmr = "hits" THEN [raised |-> FALSE, docs |-> mmr_hits(db)]
  ELSE IF outcome.mmr = "none" THEN [raised |-> FALSE, docs |-> <<>>]
  ELSE IF outcome.sim = "hits" THEN [raised |-> FALSE, docs |-> sim_hits(db)]
  ELSE IF outcome.sim = "none" THEN [raised |-> FALSE, docs |-> <<>>]
  ELSE [raised |-> TRUE, docs |-> <<>>]

\* line 1075 with main_content ahead of headings
section_order_content_first ==
  <<"title", "description", "main_content", "headings", "tables", "lists",
    "unknown">>

section_order ==
  <<"title", "description", "headings", "main_content", "tables", "lists",
    "unknown">>

\* sections[section_name]: the retrieved chunks of one section, in retrieval
\* order
section_chunks(relevant_docs, section_name) ==
  LET picked == SelectSeq(relevant_docs,
                          LAMBDA doc : doc.metadata.section = section_name)
  IN  [i \in DOMAIN picked |-> picked[i].page_content]

RECURSIVE sections_text(_, _)
\* lines 1077-1082 from the k-th section name on
sections_text(relevant_docs, k) ==
  IF k > Len(section_order) THEN <<>>
  ELSE LET chunks == section_chunks(relevant_docs, section_order[k])
           here == IF chunks = <<>> THEN <<>>
                   ELSE IF section_order[k] \in {"title", "description"}
                   THEN chunks[1] \o <<NLNL>>
                   ELSE Join(<<NL>>, chunks) \o <<NLNL>>
       IN  here \o sections_text(relevant_docs, k + 1)

\* lines 1064-1084: one source's context block
build_context(url, metadata, relevant_docs) ==
  <<"SOURCE:", " ">> \o get_domain(url) \o <<NL, "TITLE:", " ">>
    \o (IF metadata.title = Absent THEN get_domain(url) ELSE metadata.title)
    \o <<NLNL>> \o sections_text(relevant_docs, 1)

RECURSIVE search_loop(_, _, _, _, _)
\* the for loop of lines 1031-1084 over urls; acc is [all_contexts, sources,
\* retrieved, raised]
search_loop(urls, sites, metas, senv, acc) ==
  IF urls = <<>> THEN acc
  ELSE LET url == Head(urls)
           found == search(DictGet(sites, url), senv[url])
       IN  IF found.raised
           THEN [acc EXCEPT !.raised = TRUE]
           ELSE search_loop(Tail(urls), sites, metas, senv,
                  [all_contexts |->
                     IF found.docs # <<>>
                     THEN Append(acc.all_contexts,
                                 build_context(url, DictGet(metas, url), found.docs))
                     ELSE acc.all_contexts,
                   sources |->
                     IF found.docs # <<>> THEN acc.sources \cup {url}
                     ELSE acc.sources,
                   retrieved |-> Append(acc.retrieved, <<url, found.docs>>),
                   raised |-> FALSE])

\* query_groq: the completion's text, or the apology when the call fails
\* how the request of lines 395-404 ends: "ok", or a failure of the
\* transport ("timeout"), of raise_for_status ("http_status") or of
\* response.json() and the path into its result ("malformed")
GroqOutcomes == {"ok", "timeout", "http_status", "malformed"}

GroqFailures == GroqOutcomes \ {"ok"}

\* query_groq, were the except branch to return the error's text
query_groq_error_text(groq_outcome) ==
  IF groq_outcome = "ok" THEN COMPLETION
  ELSE <<"Error querying Groq API: ", groq_outcome>>

query_groq(groq_outcome) ==
  IF groq_outcome = "ok" THEN COMPLETION ELSE APOLOGY

Turn(role, content) == [role |-> role, content |-> content]

\* line 1086 with the empty-context branch never taken
no_context_never(all_contexts) == FALSE

\* line 1086: `if not all_contexts`
no_context(all_contexts) == all_contexts = <<>>

\* lines 1123-1124
trim(history) ==
  IF Len(history) > HistoryCap THEN LastK(history, HistoryCap) ELSE history

\* lines 1128-1132, were the retrieval query stored as the question
chat_entry_rewritten(user_query, search_query, response_text, sources) ==
  [question |-> search_query, answer |-> response_text, sources |-> sources]

\* lines 1128-1132: the entry appended to chat_history
chat_entry(user_query, search_query, response_text, sources) ==
  [question |-> user_query, answer |-> response_text, sources |-> sources]

\* the chat question handler on user_query: the new message_history and
\* chat_history and the record of the run
answer_question(user_query, senv, groq_outcome) ==
  LET to_search == websites_to_search(websites, user_query)
      with_user == Append(message_history, Turn("user", user_query))
      found == search_loop(to_search, websites, website_metadata, senv,
                 [all_contexts |-> <<>>, sources |-> {}, retrieved |-> <<>>,
                  raised |-> FALSE])
      empty == no_context(found.all_contexts)
      response_text == IF empty THEN INSUFFICIENT ELSE query_groq(groq_outcome)
      sources == IF empty THEN {} ELSE found.sources
      run == [asked |-> TRUE, user_query |-> user_query, searched |-> to_search,
              search_query |-> rewrite_query(user_query),
              retrieved |-> found.retrieved, completed |-> ~found.raised,
              groq_called |-> ~found.raised /\ ~empty,
              groq_outcome |-> IF ~found.raised /\ ~empty THEN groq_outcome
                               ELSE "not called",
              groq_history |-> IF ~found.raised /\ ~empty
                               THEN LastK(with_user, HistoryWindow) ELSE <<>>,
              context |-> Join(<<NLNL, "=====WEBSITE INFORMATION=====", NLNL>>,
                               found.all_contexts),
              response_text |-> IF found.raised THEN <<>> ELSE response_text,
              sources |-> sources]
  IN  IF found.raised
      THEN \* the exception leaves the handler after line 1029
           [message_history |-> with_user, chat_history |-> chat_history,
            last |-> run]
      ELSE [message_history |->
              trim(Append(with_user, Turn("assistant", response_text))),
            chat_history |->
              Append(chat_history,
                     chat_entry(user_query, rewrite_query(user_query),
                                response_text, sources)),
            last |-> run]

SearchEnvs ==
  {[mmr |-> "hits", sim |-> "hits"], [mmr |-> "none", sim |-> "hits"],
   [mmr |-> "raise", sim |-> "hits"], [mmr |-> "raise", sim |-> "none"],
   [mmr |-> "raise", sim |-> "raise"]}

\* the user asks user_query (the chat input is rendered only when
\* websites_processed, line 956)
AskQuestion(user_query, senv, groq_outcome) ==
  /\ pc = "idle"
  /\ websites_processed
  /\ LET r == answer_question(user_query, senv, groq_outcome)
     IN  /\ message_history' = r.message_history
         /\ chat_history' = r.chat_history
         /\ last' = r.last
  /\ UNCHANGED <<websites, website_metadata, processing_errors,
                 websites_processed, db_dir, cache_dir, pc, batch, arg, ret>>

(***************************************************************************)
(* url_form submit handler (lines 821-927)                                 *)
(*                                                                         *)
(* The handler's for loop is taken one URL at a time: pc = "batch" while   *)
(* it runs, batch.i is the position of the next URL, batch.attempted the   *)
(* URLs whose loop body has run.  No other handler runs meanwhile (the     *)
(* script is single-threaded).  benv is what the outside gives for one     *)
(* URL: [page, chunk_size, index_ok].                                      *)
(***************************************************************************)

\* a line of the text area that is empty after strip()
Blank == Url("", <<>>, "")

\* line 822
parse_url_list(lines) == SelectSeq(lines, LAMBDA u : u # Blank)

\* "Process Websites", were lines 834-835 missing: the maps of the earlier
\* batch are kept
SubmitUrls_keep_sources(lines) ==
  /\ pc = "idle"
  /\ parse_url_list(lines) # <<>>
  /\ db_dir' = EmptyDir
  /\ cache_dir' = EmptyDir
  /\ processing_errors' = <<>>
  /\ pc' = "batch"
  /\ batch' = [url_list |-> parse_url_list(lines), i |-> 1, attempted |-> <<>>]
  /\ last' = NoQuestion
  /\ UNCHANGED <<websites, website_metadata, websites_processed, chat_history,
                 message_history, arg, ret>>

\* "Process Websites" pressed with the text area holding `lines`
SubmitUrls(lines) ==
  /\ pc = "idle"
  /\ parse_url_list(lines) # <<>>
  /\ db_dir' = EmptyDir
  /\ cache_dir' = EmptyDir
  /\ websites' = <<>>
  /\ website_metadata' = <<>>
  /\ processing_errors' = <<>>
  /\ pc' = "batch"
  /\ batch' = [url_list |-> parse_url_list(lines), i |-> 1, attempted |-> <<>>]
  /\ last' = NoQuestion
  /\ UNCHANGED <<websites_processed, chat_history, message_history, arg, ret>>

\* "Process Websites" pressed with no URL in the text area (lines 824-825)
SubmitNothing(lines) ==
  /\ pc = "idle"
  /\ parse_url_list(lines) = <<>>
  /\ last' = NoQuestion
  /\ UNCHANGED <<websites, website_metadata, processing_errors,
                 websites_processed, chat_history, message_history, db_dir,
                 cache_dir, pc, batch, arg, ret>>

\* line 861 with the test dropped
no_chunks_never(chunks) == FALSE

\* line 861: `if not chunks`
no_chunks(chunks) == chunks = <<>>

\* the try block of lines 846-907 for url: [ok, error, docs, metadata, cache,
\* indexed]
process_url(url, benv, cache) ==
  IF ~is_valid_url(url)
  THEN [ok |-> FALSE, error |-> <<"Invalid URL format">>, docs |-> <<>>,
        metadata |-> NoMetadata, cache |-> cache]
  ELSE LET got == extract_website_content(url, benv.page, cache)
           chunks == split_text(got.content, benv.chunk_size)
       IN  IF got.status # "ok"
           THEN [ok |-> FALSE, error |-> got.error, docs |-> <<>>,
                 metadata |-> NoMetadata, cache |-> got.cache]
           ELSE IF no_chunks(chunks)
           THEN [ok |-> FALSE, error |-> <<"No content could be extracted">>,
                 docs |-> <<>>, metadata |-> NoMetadata, cache |-> got.cache]
           ELSE IF ~benv.index_ok
           THEN [ok |-> FALSE, error |-> <<"index build failed">>,
                 docs |-> <<>>, metadata |-> NoMetadata, cache |-> got.cache]
           ELSE [ok |-> TRUE, error |-> <<>>,
                 docs |-> make_documents(url, metadata_title(got.metadata), chunks),
                 metadata |-> got.metadata, cache |-> got.cache]

\* one turn of the loop of line 841, were a failure to leave the loop
ProcessUrl_stop_on_failure(benv) ==
  /\ pc = "batch"
  /\ batch.i <= Len(batch.url_list)
  /\ LET url == batch.url_list[batch.i]
         r == process_url(url, benv, cache_dir.entries)
     IN  /\ cache_dir' = [cache_dir EXCEPT !.entries = r.cache]
         /\ IF r.ok
            THEN /\ websites' = DictSet(websites, url, r.docs)
                 /\ website_metadata' = DictSet(website_metadata, url, r.metadata)
                 /\ db_dir' = [db_dir EXCEPT !.entries = @ \cup {md5(url)}]
                 /\ UNCHANGED processing_errors
                 /\ batch' = [batch EXCEPT !.i = @ + 1,
                                           !.attempted = Append(@, url)]
            ELSE /\ processing_errors' = DictSet(processing_errors, url, r.error)
                 /\ UNCHANGED <<websites, website_metadata, db_dir>>
                 /\ batch' = [batch EXCEPT !.i = Len(batch.url_list) + 1,
                                           !.attempted = Append(@, url)]
  /\ UNCHANGED <<websites_processed, chat_history, message_history, pc, last,
                 arg, ret>>

\* one turn of the loop of line 841
ProcessUrl(benv) ==
  /\ pc = "batch"
  /\ batch.i <= Len(batch.url_list)
  /\ LET url == batch.url_list[batch.i]
         r == process_url(url, benv, cache_dir.entries)
     IN  /\ cache_dir' = [cache_dir EXCEPT !.entries = r.cache]
         /\ IF r.ok
            THEN /\ websites' = DictSet(websites, url, r.docs)
                 /\ website_metadata' = DictSet(website_metadata, url, r.metadata)
                 /\ db_dir' = [db_dir EXCEPT !.entries = @ \cup {md5(url)}]
                 /\ UNCHANGED processing_errors
            ELSE /\ processing_errors' = DictSet(processing_errors, url, r.error)
                 /\ UNCHANGED <<websites, website_metadata, db_dir>>
         /\ batch' = [batch EXCEPT !.i = @ + 1, !.attempted = Append(@, url)]
  /\ UNCHANGED <<websites_processed, chat_history, message_history, pc, last,
                 arg, ret>>

\* lines 918-927, after the loop
FinishBatch ==
  /\ pc = "batch"
  /\ batch.i > Len(batch.url_list)
  /\ websites_processed' = (IF websites # <<>> THEN TRUE ELSE websites_processed)
  /\ pc' = "idle"
  /\ UNCHANGED <<websites, website_metadata, processing_errors, chat_history,
                 message_history, db_dir, cache_dir, batch, last, arg, ret>>

(***************************************************************************)
(* "Clear All Data" (lines 940-954); the button is rendered only while the *)
(* source map is non-empty (line 929)                                      *)
(***************************************************************************)

ClearAllData ==
  /\ pc = "idle"
  /\ websites # <<>>
  /\ websites' = <<>>
  /\ website_metadata' = <<>>
  /\ websites_processed' = FALSE
  /\ chat_history' = <<>>
  /\ message_history' = <<>>
  /\ db_dir' = EmptyDir
  /\ cache_dir' = EmptyDir
  /\ last' = NoQuestion
  /\ UNCHANGED <<processing_errors, pc, batch, arg, ret>>

(***************************************************************************)
(* The session                                                             *)
(***************************************************************************)

\* bound: the number of lines in the text area
MaxUrls == 2

\* bound: the number of questions asked since the history was last empty
MaxQuestions == 1

Page(article, title, text, fetch, imgs) ==
  [article |-> article, title |-> title, text |-> text, authors |-> <<>>,
   publish_date |-> None, fetch |-> fetch, harvest |-> "ok",
   description |-> IF text = <<>> THEN <<>> ELSE <<"about">>, keywords |-> <<>>,
   headings |-> <<>>, tables |-> <<>>, lists |-> <<>>, has_title |-> TRUE,
   soup_title |-> <<"Example">>, body_text |-> text, imgs |-> imgs]

\* a page that is extracted, chunked and indexed
GoodPage ==
  [page |-> Page("ok", <<"Example">>, <<"body">>, "ok", <<GoodImg(1)>>),
   chunk_size |-> 4, index_ok |-> TRUE]

\* a page with nothing in any section: no chunk
EmptyPage ==
  [page |-> Page("ok", <<>>, <<>>, "ok", <<>>), chunk_size |-> 4,
   index_ok |-> TRUE]

\* a page neither strategy can fetch
DeadPage ==
  [page |-> Page("ArticleException", <<>>, <<>>, "error", <<>>),
   chunk_size |-> 4, index_ok |-> TRUE]

\* a page whose index cannot be built
UnindexablePage ==
  [page |-> Page("ok", <<"Example">>, <<"body">>, "ok", <<>>),
   chunk_size |-> 4, index_ok |-> FALSE]

BatchEnvs == {GoodPage, EmptyPage, DeadPage, UnindexablePage}

Urls == {UA, UB, UBad}

\* what the text area can hold: up to MaxUrls URLs, or blank lines around
TextAreas ==
  SeqsUpTo(Urls, MaxUrls) \cup {<<Blank>>, <<Blank, UA>>, <<UBad, Blank, UB>>}

Init == InitSession /\ arg = <<>> /\ ret = NotRun

\* the session's steps with the inputs drawn from the given sets; questions
\* are asked while fewer than maxq are answered and fewer than maxturns turns
\* are stored
NextWith(areas, benvs, questions, senvs, groqs, maxq, maxturns) ==
  \/ \E lines \in areas : SubmitUrls(lines)
  \/ \E lines \in areas : SubmitNothing(lines)
  \/ \E benv \in benvs : ProcessUrl(benv)
  \/ FinishBatch
  \/ /\ Len(chat_history) < maxq
     /\ Len(message_history) < maxturns
     /\ \E user_query \in questions :
          \E senv \in [DictKeySet(websites) -> senvs] :
             \E groq_outcome \in groqs : AskQuestion(user_query, senv, groq_outcome)
  \/ ClearAllData

Hits == [mmr |-> "hits", sim |-> "hits"]

BothRaise == [mmr |-> "raise", sim |-> "raise"]

\* ingestion in breadth, few kinds of question
Next ==
  NextWith(TextAreas, BatchEnvs, {<<"hello">>}, {Hits, BothRaise}, {"ok", "timeout"},
           MaxQuestions, 2 * MaxQuestions)

Spec == Init /\ [][Next]_vars

ChatQuestions == {<<"hello">>, <<"ALPHA", "Summary">>, <<"show", "me", "beta">>}

\* questions in breadth, few kinds of page
NextChat ==
  NextWith({<<UA>>, <<UA, UB>>, <<UBad>>, <<>>}, {GoodPage, DeadPage},
           ChatQuestions, SearchEnvs, GroqOutcomes, MaxQuestions, 2 * MaxQuestions)

SpecChat == Init /\ [][NextChat]_vars

\* one source, one question asked until the history is full
NextHist ==
  NextWith({<<UA>>, <<>>}, {GoodPage}, {<<"hello">>}, {Hits, BothRaise}, {"ok"},
           MaxQuestions + 1, HistoryCap + 1)

SpecHist == Init /\ [][NextHist]_vars

(***************************************************************************)
(* Properties of the session                                               *)
(***************************************************************************)

\* no searched source gave a chunk
NoChunk(retrieved) == \A k \in DOMAIN retrieved : retrieved[k][2] = <<>>

\* C2: whenever the searches of a question end and no searched source gives a
\* chunk (also when no source is indexed), the answer shown, stored in the
\* chat history and appended to the conversation history is the fixed
\* insufficient-information message, query_groq is not called and the
\* recorded source set is empty; a question whose searches raise calls
\* query_groq neither
C2_NoChunkNoCompletion ==
  /\ (last.asked /\ last.completed /\ NoChunk(last.retrieved)) =>
       /\ last.response_text = INSUFFICIENT
       /\ ~last.groq_called
       /\ last.sources = {}
       /\ chat_history # <<>>
       /\ chat_history[Len(chat_history)] =
            [question |-> last.user_query, answer |-> INSUFFICIENT,
             sources |-> {}]
       /\ message_history[Len(message_history)] = Turn("assistant", INSUFFICIENT)
  /\ (last.asked /\ ~last.completed) => ~last.groq_called

\* two sources are searched and both give no chunk
C2_Witness ==
  /\ last.asked
  /\ last.completed
  /\ Len(last.searched) = 2
  /\ NoChunk(last.retrieved)
  /\ last.response_text = INSUFFICIENT

\* a question is asked while no source is indexed
C2_WitnessNoSource ==
  /\ last.asked
  /\ last.completed
  /\ websites = <<>>
  /\ last.response_text = INSUFFICIENT

\* C3: for every non-empty URL list and every combination of failures the
\* loop attempts the URLs in order and ends only after the last one: a turn
\* whose URL fails records the error under that URL, leaves the source map
\* alone and goes on to the next URL
C3_EveryUrlAttempted ==
  /\ [](/\ batch.attempted = SubSeq(batch.url_list, 1, batch.i - 1)
        /\ (pc = "idle" => batch.attempted = batch.url_list))
  /\ [][\A benv \in BatchEnvs :
          (ProcessUrl(benv)
             /\ ~process_url(batch.url_list[batch.i], benv,
                             cache_dir.entries).ok) =>
            /\ DictHas(processing_errors', batch.url_list[batch.i])
            /\ DictGet(processing_errors', batch.url_list[batch.i]) # <<>>
            /\ websites' = websites
            /\ pc' = "batch"
            /\ batch'.i = batch.i + 1]_vars

\* the first URL of a finished batch failed and the second became a source
C3_Witness ==
  /\ pc = "idle"
  /\ Len(batch.url_list) = 2
  /\ batch.attempted = batch.url_list
  /\ DictKeys(processing_errors) = <<batch.url_list[1]>>
  /\ DictKeys(websites) = <<batch.url_list[2]>>

\* C7: after any sequence of questions the stored conversation history holds
\* at most 20 turns, and the history given to a completion call is the last
\* turns of the stored one, at most 10, ending with the question
C7_HistoryAtMostTwenty ==
  /\ Len(message_history) <= HistoryCap
  /\ (last.asked /\ last.groq_called) =>
       /\ Len(last.groq_history) <= HistoryWindow
       /\ last.groq_history[Len(last.groq_history)] =
            Turn("user", last.user_query)

\* the history is full and the searches of one more question raise
C7_Witness ==
  /\ Len(message_history) = HistoryCap + 1
  /\ last.asked
  /\ ~last.completed
  /\ chat_history # <<>>

\* C9: "Clear All Data" leaves the source map, the metadata map, the chat
\* history, the conversation history and the processing-error map empty, the
\* processed flag false and both directories existing and empty
C9_ClearEmptiesEverything ==
  [][ClearAllData =>
       /\ websites' = <<>>
       /\ website_metadata' = <<>>
       /\ chat_history' = <<>>
       /\ message_history' = <<>>
       /\ processing_errors' = <<>>
       /\ ~websites_processed'
       /\ db_dir' = EmptyDir
       /\ cache_dir' = EmptyDir]_vars

\* what "Clear All Data" does reset
C9_ClearEmptiesAllButErrors ==
  [][ClearAllData =>
       /\ websites' = <<>>
       /\ website_metadata' = <<>>
       /\ chat_history' = <<>>
       /\ message_history' = <<>>
       /\ processing_errors' = processing_errors
       /\ ~websites_processed'
       /\ db_dir' = EmptyDir
       /\ cache_dir' = EmptyDir]_vars

\* an error is on record while a source is indexed: "Clear All Data" can be
\* pressed
C9_Witness ==
  /\ pc = "idle"
  /\ websites # <<>>
  /\ processing_errors # <<>>
  /\ chat_history # <<>>

(***************************************************************************)
(* Re-submitting the URL list between two askings of one question          *)
(***************************************************************************)

ReaskQuestions == {<<"ALPHA", "Summary">>, <<"alpha", "and", "beta">>}

\* every page is indexed and a search that does not raise finds chunks, so
\* the sources of a chat entry are the sources that were searched for it
NextReask ==
  NextWith({<<UA, UB>>, <<UB>>, <<UA2, UB>>, <<>>}, {GoodPage}, ReaskQuestions,
           {Hits, BothRaise}, {"ok"}, MaxQuestions + 1, 2 * (MaxQuestions + 1))

SpecReask == Init /\ [][NextReask]_vars

\* an earlier asking of the question now asked searched S, its domain is in
\* the question, and S is no longer indexed
AskedBeforeOfRemoved(S) ==
  /\ ~DictHas(websites, S)
  /\ DomainOccurs(S, last.user_query)
  /\ \E k \in 1..(Len(chat_history) - 1) :
        /\ chat_history[k].question = last.user_query
        /\ chat_history[k].sources = {S}

\* the first indexed source whose domain is in the question, alone, or every
\* indexed source when there is none
FirstMentionedOrAll(sites, user_query) ==
  LET m == Mentioned(sites, user_query)
      keys == DictKeys(sites)
  IN  IF m = {} THEN keys
      ELSE LET i == CHOOSE i \in DOMAIN keys :
                      keys[i] \in m /\ \A j \in 1..(i - 1) : keys[j] \notin m
           IN  <<keys[i]>>

\* C12 (as stated): a question containing the domain of an indexed source S
\* is searched in S only; once S is no longer indexed, the identical question
\* is searched in all the remaining indexed sources
C12_OnlyMentionedThenAllRemaining ==
  last.asked =>
    /\ \A S \in Mentioned(websites, last.user_query) : last.searched = <<S>>
    /\ \A S \in {UA, UA2, UB} :
         AskedBeforeOfRemoved(S) => last.searched = DictKeys(websites)

\* C12 (amended): a question is searched only in the first indexed source, in
\* indexing order, whose domain it contains; once a source S it was searched
\* in is no longer indexed, the identical question is searched in the first
\* remaining source whose domain it contains, and in all the remaining
\* sources when it contains the domain of none of them
C12_FirstMentionedThenRemaining ==
  last.asked =>
    /\ last.searched = FirstMentionedOrAll(websites, last.user_query)
    /\ \A S \in {UA, UA2, UB} :
         AskedBeforeOfRemoved(S) =>
           IF Mentioned(websites, last.user_query) = {}
           THEN last.searched = DictKeys(websites)
           ELSE /\ Len(last.searched) = 1
                /\ last.searched[1] \in Mentioned(websites, last.user_query)

\* the question was searched in Alpha only, the list was re-submitted without
\* Alpha, and the same question is searched in all that remains
C12_Witness ==
  /\ last.asked
  /\ AskedBeforeOfRemoved(UA)
  /\ Mentioned(websites, last.user_query) = {}
  /\ last.searched = DictKeys(websites)
  /\ last.searched # <<>>

\* the same, with another page of the removed source's domain remaining
C12_WitnessSameDomain ==
  /\ last.asked
  /\ AskedBeforeOfRemoved(UA)
  /\ last.searched = <<UA2>>
  /\ Len(DictKeys(websites)) = 2

(***************************************************************************)
(* Failure of the completion call                                          *)
(***************************************************************************)

\* C13: when the completion call fails (transport, HTTP status, malformed
\* response) the handler still ends: the answer is the fixed apology, and the
\* session is updated as for a successful answer, one user turn and one
\* assistant turn appended to the conversation history (then trimmed) and one
\* entry appended to the chat history, nothing else changing
C13_CompletionFailureIsAnswered ==
  [][(last'.asked /\ last'.groq_outcome \in GroqFailures) =>
       /\ last'.completed
       /\ last'.response_text = APOLOGY
       /\ message_history' =
            trim(message_history
                   \o <<Turn("user", last'.user_query),
                        Turn("assistant", APOLOGY)>>)
       /\ chat_history' =
            Append(chat_history,
                   [question |-> last'.user_query, answer |-> APOLOGY,
                    sources |-> last'.sources])
       /\ last'.sources =
            {last'.retrieved[k][1] :
               k \in {j \in DOMAIN last'.retrieved : last'.retrieved[j][2] # <<>>}}
       /\ UNCHANGED <<websites, website_metadata, processing_errors,
                      websites_processed, db_dir, cache_dir>>]_vars

\* a question found chunks, the completion call failed, and the apology is
\* the answer on record
C13_Witness ==
  /\ last.asked
  /\ last.groq_outcome = "malformed"
  /\ last.response_text = APOLOGY
  /\ chat_history # <<>>
  /\ chat_history[Len(chat_history)].answer = APOLOGY
  /\ chat_history[Len(chat_history)].sources # {}

(***************************************************************************)
(* find_relevant_images (lines 342-373)                                    *)
(***************************************************************************)

DefaultMaxImages == 3

\* set(text.lower().split())
terms_of(text) == {LowerSym(text[i]) : i \in DOMAIN text}

\* lines 351-368: the score of img for the query's terms
image_score(img, query_terms) ==
  (IF img.alt_text # <<>>
   THEN Cardinality(query_terms \cap terms_of(img.alt_text)) * 2 ELSE 0)
  + (IF img.caption # <<>>
     THEN Cardinality(query_terms \cap terms_of(img.caption)) * 2 ELSE 0)
  + (IF img.heading # <<>>
     THEN Cardinality(query_terms \cap terms_of(img.heading)) * 3 ELSE 0)
  + (IF img.surrounding_text # <<>>
     THEN Cardinality(query_terms \cap terms_of(img.surrounding_text)) ELSE 0)

RECURSIVE scored_images(_, _)
\* lines 350-370: relevant_images before the sort, pairs <<img, score>>
scored_images(images, query_terms) ==
  IF images = <<>> THEN <<>>
  ELSE LET img == Head(images)
           score == image_score(img, query_terms)
           rest == scored_images(Tail(images), query_terms)
       IN  IF score > 0 THEN <<(<<img, score>>)>> \o rest ELSE rest

\* where a pair of that score goes in a list sorted by descending score, were
\* the sort to put it before the pairs of equal score
place_before_equals(sorted, score) ==
  Cardinality({i \in DOMAIN sorted : sorted[i][2] > score}) + 1

\* where a pair of that score goes in a list sorted by descending score:
\* after the pairs of equal score (list.sort is stable, also with reverse)
place(sorted, score) ==
  Cardinality({i \in DOMAIN sorted : sorted[i][2] >= score}) + 1

RECURSIVE sort_by_score(_)
\* line 372: relevant_images.sort(key=lambda x: x[1], reverse=True)
sort_by_score(pairs) ==
  IF pairs = <<>> THEN <<>>
  ELSE LET n == Len(pairs)
           sorted == sort_by_score(SubSeq(pairs, 1, n - 1))
           at == place(sorted, pairs[n][2])
       IN  SubSeq(sorted, 1, at - 1) \o <<pairs[n]>>
             \o SubSeq(sorted, at, Len(sorted))

\* lst[:n]
slice_to(lst, n) ==
  IF n >= 0 THEN FirstK(lst, n)
  ELSE SubSeq(lst, 1, IF Len(lst) + n < 0 THEN 0 ELSE Len(lst) + n)

find_relevant_images(query, metadata, max_images) ==
  IF metadata = NoMetadata \/ "images" \notin DOMAIN metadata
  THEN <<>>
  ELSE IF metadata.images = <<>>
  THEN <<>>
  ELSE LET relevant_images ==
             sort_by_score(scored_images(metadata.images, terms_of(query)))
           kept == slice_to(relevant_images, max_images)
       IN  [i \in DOMAIN kept |-> kept[i][1]]

\* bound: the number of images a source's metadata holds
MaxPool == 4

StoredImage(alt, caption, heading, surrounding) ==
  [url |-> <<"https://", "cdn", "/", "a", ".png">>, alt_text |-> alt,
   caption |-> caption, heading |-> heading, surrounding_text |-> surrounding,
   local_path |-> img_path_of(CachedName), description |-> <<"image">>]

\* for the query "cat": scores 2, 3, 1, 0 and 0; for "cat dog": 2, 3, 2, 4, 0
ImageKinds ==
  {StoredImage(<<"cat">>, <<>>, <<>>, <<>>),
   StoredImage(<<>>, <<>>, <<"Cat">>, <<>>),
   StoredImage(<<>>, <<>>, <<>>, <<"a", "cat", "and", "a", "DOG">>),
   StoredImage(<<"dog">>, <<"dog">>, <<>>, <<>>),
   StoredImage(<<>>, <<>>, <<>>, <<>>)}

\* the image lists of up to MaxPool images; elem is the image's position
ImagePools ==
  {[i \in DOMAIN kinds |->
      [url |-> kinds[i].url, alt_text |-> kinds[i].alt_text,
       caption |-> kinds[i].caption, heading |-> kinds[i].heading,
       surrounding_text |-> kinds[i].surrounding_text,
       local_path |-> kinds[i].local_path,
       description |-> kinds[i].description, elem |-> i]] :
     kinds \in SeqsUpTo(ImageKinds, MaxPool)}

RelevantQueries ==
  {<<>>, <<"cat">>, <<"Dog">>, <<"cat", "dog">>, <<"CAT", "cat">>, <<"pets">>}

InitRelevant ==
  /\ InitSession
  /\ \/ \E q \in RelevantQueries, pool \in ImagePools :
          \E n \in {0, 1, DefaultMaxImages} :
             arg = [query |-> q, metadata |-> [images |-> pool],
                    max_images |-> n]
     \/ \E q \in RelevantQueries :
          \E md \in {NoMetadata, [title |-> <<"Example">>]} :
             arg = [query |-> q, metadata |-> md,
                    max_images |-> DefaultMaxImages]
  /\ ret = NotRun

ApplyRelevant ==
  /\ ~ret.done
  /\ ret' = Result(find_relevant_images(arg.query, arg.metadata, arg.max_images))
  /\ UNCHANGED <<session, arg>>

SpecRelevant == InitRelevant /\ [][ApplyRelevant]_vars

\* 2*|Q n alt| + 2*|Q n caption| + 3*|Q n heading| + |Q n surrounding| over
\* the lower-case word sets
ClaimedScore(img, query) ==
  LET Q == {LowerSym(w) : w \in SeqRange(query)}
      W(text) == {LowerSym(w) : w \in SeqRange(text)}
  IN  2 * Cardinality(Q \cap W(img.alt_text))
        + 2 * Cardinality(Q \cap W(img.caption))
        + 3 * Cardinality(Q \cap W(img.heading))
        + Cardinality(Q \cap W(img.surrounding_text))

\* the images of the source's list, if any
PoolOf(metadata) ==
  IF "images" \in DOMAIN metadata THEN metadata.images ELSE <<>>

MaxDocs == 4

\* the chunks of an indexed source; the last symbol of each names it
IndexedChunks ==
  << <<"TITLE:", "c1">>, <<"DESCRIPTION:", "c2">>, <<"DESCRIPTION:", "c3">>,
     <<"HEADINGS:", "c4">>, <<"MAIN CONTENT:", "c5">>, <<"c6">>, <<"c7">>,
     <<"TABLES:", "c8">>, <<"LISTS:", "c9">>, <<"TITLE:", "c10">> >>

IndexedDocs == make_documents(UA, <<"Example">>, IndexedChunks)

\* what a search can return: up to MaxDocs distinct documents in any order
Retrievals ==
  {[i \in DOMAIN picks |-> IndexedDocs[picks[i]]] :
     picks \in {p \in SeqsUpTo(DOMAIN IndexedDocs, MaxDocs) :
                  \A i, j \in DOMAIN p : i # j => p[i] # p[j]}}

InitContext ==
  /\ InitSession
  /\ \E docs \in Retrievals :
       arg = [url |-> UA, metadata |-> [title |-> <<"Example">>],
              relevant_docs |-> docs]
  /\ ret = NotRun

ApplyContext ==
  /\ ~ret.done
  /\ ret' = Result(build_context(arg.url, arg.metadata, arg.relevant_docs))
  /\ UNCHANGED <<session, arg>>

SpecContext == InitContext /\ [][ApplyContext]_vars

\* the symbol that names the chunk of doc
ChunkName(doc) == doc.page_content[Len(doc.page_content)]

Occurrences(sym, text) == {p \in DOMAIN text : text[p] = sym}

\* where the fixed order puts the section
SectionRank(section) ==
  CASE section = "title" -> 1 [] section = "description" -> 2
    [] section = "headings" -> 3 [] section = "main_content" -> 4
    [] section = "tables" -> 5 [] section = "lists" -> 6
    [] section = "unknown" -> 7

\* C15: in a source's context block the retrieved chunks appear grouped by
\* section in the order title, description, headings, main_content, tables,
\* lists, unknown, whatever the order of retrieval; of the title and the
\* description section only the first retrieved chunk appears, of every other
\* section all retrieved chunks appear, once, in retrieval order
C15_ContextGroupedBySection ==
  ret.done =>
    LET docs == arg.relevant_docs
        sec(i) == docs[i].metadata.section
        first(i) == \A j \in 1..(i - 1) : sec(j) # sec(i)
        emitted == {i \in DOMAIN docs :
                      sec(i) \in {"title", "description"} => first(i)}
        at(i) == CHOOSE p \in Occurrences(ChunkName(docs[i]), ret.val) : TRUE
    IN  /\ \A i \in DOMAIN docs :
             IF i \in emitted
             THEN /\ Cardinality(Occurrences(ChunkName(docs[i]), ret.val)) = 1
                  /\ Contains(ret.val, docs[i].page_content)
             ELSE Occurrences(ChunkName(docs[i]), ret.val) = {}
        /\ \A i, j \in emitted :
             (i # j /\ at(i) < at(j)) =>
               \/ SectionRank(sec(i)) < SectionRank(sec(j))
               \/ (sec(i) = sec(j) /\ i < j)

\* retrieval gave an unknown chunk, the second title chunk, a main_content
\* chunk and the first title chunk, in that order
C15_Witness ==
  /\ ret.done
  /\ Len(arg.relevant_docs) = 4
  /\ ChunkName(arg.relevant_docs[1]) = "c6"
  /\ ChunkName(arg.relevant_docs[2]) = "c10"
  /\ ChunkName(arg.relevant_docs[3]) = "c5"
  /\ ChunkName(arg.relevant_docs[4]) = "c1"
  /\ Occurrences("c1", ret.val) = {}
  /\ Occurrences("c10", ret.val) # {}

(***************************************************************************)
(* The chat history                                                        *)
(***************************************************************************)

\* C16: a question that is answered appends exactly one entry, the user's
\* own text (not the rewritten retrieval query), the answer and the
\* contributing sources, to the end of the chat history; no other question
\* and no step of a batch submission changes the chat history (only "Clear
\* All Data" empties it)
C16_ChatHistoryAppendOnly ==
  [][/\ (last'.asked /\ last'.completed) =>
          chat_history' =
            Append(chat_history,
                   [question |-> last'.user_query,
                    answer |-> last'.response_text,
                    sources |-> last'.sources])
     /\ (last'.asked /\ ~last'.completed) => chat_history' = chat_history
     /\ (~last'.asked /\ ~ClearAllData) => chat_history' = chat_history
     /\ (pc = "batch" \/ pc' = "batch") => chat_history' = chat_history]_vars

\* a question whose retrieval query was rewritten was answered, the URL list
\* was re-submitted, and a second question is answered: the first entry is
\* still the first question as the user typed it
C16_Witness ==
  /\ last.asked
  /\ last.completed
  /\ Len(chat_history) = 2
  /\ chat_history[1].question = <<"ALPHA", "Summary">>
  /\ rewrite_query(chat_history[1].question) # chat_history[1].question
  /\ chat_history[1].sources = {UA}
  /\ ~DictHas(websites, UA)
  /\ chat_history[2].question = last.user_query
  /\ last.search_query # last.user_query

(***************************************************************************)
(* The source map                                                          *)
(***************************************************************************)

\* C17: a URL is in the source map only if it was attempted in the current
\* batch, its extraction gave its metadata, chunking gave at least one chunk
\* and its index was built; an attempt whose assembled text gives no chunk
\* records the error under the URL, builds no index and adds nothing to the
\* source map
C17_SourceMapOnlyIndexed ==
  /\ [](\A url \in DictKeySet(websites) :
          /\ \E k \in DOMAIN batch.attempted : batch.attempted[k] = url
          /\ is_valid_url(url)
          /\ DictHas(website_metadata, url)
          /\ DictGet(websites, url) # <<>>
          /\ md5(url) \in db_dir.entries)
  /\ [][\A benv \in BatchEnvs :
          (/\ ProcessUrl(benv)
           /\ is_valid_url(batch.url_list[batch.i])
           /\ LET got == extract_website_content(batch.url_list[batch.i],
                                                 benv.page, cache_dir.entries)
              IN  /\ got.status = "ok"
                  /\ split_text(got.content, benv.chunk_size) = <<>>) =>
            /\ DictHas(processing_errors', batch.url_list[batch.i])
            /\ websites' = websites
            /\ website_metadata' = website_metadata
            /\ db_dir' = db_dir]_vars

\* the first URL of the batch gave no chunk and is on record as failed, the
\* second is indexed
C17_Witness ==
  /\ pc = "idle"
  /\ batch.attempted = <<UA, UB>>
  /\ DictKeys(websites) = <<UB>>
  /\ DictKeys(processing_errors) = <<UA>>
  /\ DictGet(processing_errors, UA) = <<"No content could be extracted">>
  /\ db_dir.entries = {md5(UB)}

(***************************************************************************)
(* The start of a batch                                                    *)
(***************************************************************************)

\* C18: a submission with a non-empty URL list starts, before any URL is
\* processed, by wiping and recreating the index directory and the image
\* cache and emptying the source map, the metadata map and the
\* processing-error map, so the source map only ever holds URLs of the
\* latest list, also when every URL of it fails; a submission with an empty
\* URL list changes none of these
C18_BatchStartsFromNothing ==
  /\ [][(pc = "idle" /\ pc' = "batch") =>
          /\ batch'.url_list # <<>>
          /\ batch'.attempted = <<>>
          /\ websites' = <<>>
          /\ website_metadata' = <<>>
          /\ processing_errors' = <<>>
          /\ db_dir' = [exists |-> TRUE, entries |-> {}]
          /\ cache_dir' = [exists |-> TRUE, entries |-> {}]]_vars
  /\ [](\A url \in DictKeySet(websites) :
          \E k \in DOMAIN batch.url_list : batch.url_list[k] = url)
  /\ [][\A lines \in TextAreas :
          SubmitNothing(lines) =>
            UNCHANGED <<websites, website_metadata, processing_errors, db_dir,
                        cache_dir, websites_processed, batch, pc>>]_vars

\* a batch was indexed, then a batch of which every URL failed ended: nothing
\* of the earlier batch is left
C18_Witness ==
  /\ pc = "idle"
  /\ websites_processed
  /\ websites = <<>>
  /\ website_metadata = <<>>
  /\ db_dir = EmptyDir
  /\ Len(batch.url_list) = 2
  /\ batch.attempted = batch.url_list
  /\ DictKeySet(processing_errors) = SeqRange(batch.url_list)

(***************************************************************************)
(* The summary and specific-topic branches on their own (lines 1035-1044)  *)
(***************************************************************************)

\* questions put together from a summary word, a specific-topic phrase, an
\* "about" clause and an image word, each present or not
IntentQuestions ==
  {a \o b \o c \o d :
     a \in {<<>>, <<"Summary">>, <<"give", "an", "overview">>},
     b \in {<<>>, <<"specific">>, <<"What", "does">>, <<"tell", "me", "about">>},
     c \in {<<>>, <<"cats">>, <<"about">>, <<"about", "cats">>,
            <<"it", "say", "about", "big", "cats", "in", "Rome">>},
     d \in {<<>>, <<"image">>}}

InitIntent ==
  /\ InitSession
  /\ \E q \in IntentQuestions : arg = [user_query |-> q]
  /\ ret = NotRun

ApplyIntent ==
  /\ ~ret.done
  /\ ret' = Result([branches |-> intent_query(arg.user_query),
                    search_query |-> rewrite_query(arg.user_query)])
  /\ UNCHANGED <<session, arg>>

SpecIntent == InitIntent /\ [][ApplyIntent]_vars

\* the question has an "about" with a word after it
HasAboutTopic(user_query) ==
  \E i \in 1..(Len(user_query) - 1) : LowerSym(user_query[i]) = "about"

\* C19: the summary branch is tested first and excludes the specific-topic
\* branch: a question matching a summary keyword gets the summary terms and
\* nothing else from these branches, also when it matches a specific-topic
\* phrase; a question matching only a specific-topic phrase gets nothing when
\* it has no "about X" topic, and the topic and the detail terms when it has
\* one; without an image keyword this is the retrieval query
C19_SummaryExcludesSpecific ==
  ret.done =>
    LET user_query == arg.user_query
        summary == ContainsAny(Lower(user_query), SummaryTerms)
        specific == ContainsAny(Lower(user_query), SpecificTerms)
    IN  /\ summary => ret.val.branches = user_query \o SummarySuffix
        /\ (~summary /\ specific /\ ~HasAboutTopic(user_query)) =>
             ret.val.branches = user_query
        /\ (~summary /\ specific /\ HasAboutTopic(user_query)) =>
             /\ StartsWith(ret.val.branches, user_query)
             /\ Len(ret.val.branches) > Len(user_query) + Len(DetailSuffix)
             /\ SubSeq(ret.val.branches,
                       Len(ret.val.branches) - Len(DetailSuffix) + 1,
                       Len(ret.val.branches)) = DetailSuffix
        /\ (~summary /\ ~specific) => ret.val.branches = user_query
        /\ ~is_image_related(user_query) =>
             ret.val.search_query = ret.val.branches

\* a question with a summary word, a specific-topic phrase and an "about X"
\* topic gets the summary terms only
C19_Witness ==
  /\ ret.done
  /\ arg.user_query = <<"Summary", "tell", "me", "about", "about", "cats">>
  /\ ret.val.search_query = arg.user_query \o SummarySuffix

\* a question with a specific-topic phrase and no "about X" gets nothing
C19_WitnessNoTopic ==
  /\ ret.done
  /\ arg.user_query = <<"What", "does", "about">>
  /\ ret.val.search_query = arg.user_query

(***************************************************************************)
(* Retrieval: one question asked of indexed sources, one of them holding   *)
(* more chunks than a search returns                                       *)
(***************************************************************************)

SearchOutcomes == [mmr : {"hits", "none", "raise"}, sim : {"hits", "none", "raise"}]

\* the index of url: ten chunks for Alpha, two for any other source
DocsOf(url) ==
  IF url = UA THEN make_documents(UA, <<"Example">>, IndexedChunks)
  ELSE make_documents(url, <<"Example">>, << <<"TITLE:", "b1">>, <<"b2">> >>)

RetrieveQuestions == {<<"hello">>, <<"about", "BETA">>}

\* the session after a batch that indexed `keys`, and what the searches of the
\* question to come will do, arg.senv
InitRetrieve ==
  /\ \E keys \in {<<UA>>, <<UA, UB>>, <<UB, UA>>} :
       /\ websites = [i \in DOMAIN keys |-> <<keys[i], DocsOf(keys[i])>>]
       /\ website_metadata =
            [i \in DOMAIN keys |->
               <<keys[i], process_url(keys[i], GoodPage, {}).metadata>>]
       /\ db_dir = [exists |-> TRUE, entries |-> {md5(u) : u \in SeqRange(keys)}]
       /\ cache_dir =
            [exists |-> TRUE,
             entries |-> UNION {process_url(u, GoodPage, {}).cache :
                                  u \in SeqRange(keys)}]
       /\ batch = [url_list |-> keys, i |-> Len(keys) + 1, attempted |-> keys]
       /\ \E senv \in [SeqRange(keys) -> SearchOutcomes] : arg = [senv |-> senv]
  /\ processing_errors = <<>>
  /\ websites_processed = TRUE
  /\ chat_history = <<>>
  /\ message_history = <<>>
  /\ pc = "idle"
  /\ last = NoQuestion
  /\ ret = NotRun

AskIndexed ==
  /\ ~last.asked
  /\ \E user_query \in RetrieveQuestions : AskQuestion(user_query, arg.senv, "ok")

SpecRetrieve == InitRetrieve /\ [][AskIndexed]_vars

\* the chunks the question retrieved from its k-th searched source
RetrievedFrom(k) == last.retrieved[k][2]

\* C20: for each searched source the retrieved chunks are those of the
\* diversity-aware search when it does not raise and those of the top-8
\* similarity search when it raises; the source set recorded for an answered
\* question is exactly the set of searched sources that gave at least one
\* chunk, a subset of the indexed sources
C20_RetrievalAndSources ==
  last.asked =>
    /\ \A k \in DOMAIN last.retrieved :
         LET url == last.searched[k]
             outcome == arg.senv[url]
             db == DictGet(websites, url)
         IN  /\ last.retrieved[k][1] = url
             /\ Len(RetrievedFrom(k)) <= 8
             /\ outcome.mmr = "hits" => RetrievedFrom(k) = mmr_hits(db)
             /\ outcome.mmr = "none" => RetrievedFrom(k) = <<>>
             /\ (outcome.mmr = "raise" /\ outcome.sim = "hits") =>
                  RetrievedFrom(k) = SubSeq(db, 1, IF Len(db) < 8 THEN Len(db) ELSE 8)
             /\ (outcome.mmr = "raise" /\ outcome.sim = "none") =>
                  RetrievedFrom(k) = <<>>
    /\ last.completed =>
         /\ Len(last.retrieved) = Len(last.searched)
         /\ Len(chat_history) = 1
         /\ chat_history[1].sources =
              {last.searched[k] :
                 k \in {j \in DOMAIN last.searched : RetrievedFrom(j) # <<>>}}
         /\ chat_history[1].sources \subseteq DictKeySet(websites)
    /\ ~last.completed => chat_history = <<>>

\* two sources are searched: the diversity-aware search of Alpha raises and
\* its similarity search gives the first 8 of its 10 chunks, the search of
\* the other source finds nothing; Alpha alone is recorded
C20_Witness ==
  /\ last.asked
  /\ last.completed
  /\ last.searched = <<UB, UA>>
  /\ arg.senv[UA] = [mmr |-> "raise", sim |-> "hits"]
  /\ arg.senv[UB].mmr = "none"
  /\ Len(RetrievedFrom(2)) = 8
  /\ RetrievedFrom(2) # mmr_hits(DictGet(websites, UA))
  /\ chat_history[1].sources = {UA}

(***************************************************************************)
(* Failure of the enrichment step                                          *)
(***************************************************************************)

\* the second fetch, the markup parsing or the image harvesting fails
EnrichmentFails(env) == env.fetch # "ok" \/ env.harvest # "ok"

\* C21: when the article-reader strategy succeeds and the enrichment step
\* fails (second fetch, markup parsing or image harvesting), the call still
\* returns: the content is "TITLE: <title>", a blank line, "MAIN CONTENT:"
\* and the article's text and nothing else, and the metadata holds the
\* article's title, authors, publish date, url and domain and no images
C21_EnrichmentFailureDegrades ==
  (ret.done /\ is_valid_url(arg.url) /\ arg.env.article = "ok"
     /\ EnrichmentFails(arg.env)) =>
    /\ ret.val.status = "ok"
    /\ ret.val.content =
         <<"TITLE:", " ">> \o arg.env.title
           \o <<"\n\n", "MAIN CONTENT:", "\n">> \o arg.env.text
    /\ ret.val.metadata.title = arg.env.title
    /\ ret.val.metadata.authors = arg.env.authors
    /\ ret.val.metadata.publish_date = arg.env.publish_date
    /\ ret.val.metadata.url = arg.url
    /\ ret.val.metadata.domain = get_domain(arg.url)
    /\ ret.val.metadata.images = Absent
    /\ ~ret.val.fallback_tried

\* the page has a description, headings and tables but the image harvesting
\* fails: none of them is in the content, and the title, empty, still has
\* its label
C21_Witness ==
  /\ ret.done
  /\ arg.url = UA
  /\ arg.env.article = "ok"
  /\ arg.env.fetch = "ok"
  /\ arg.env.harvest = "error"
  /\ arg.env.title = <<>>
  /\ arg.env.description # <<>>
  /\ arg.env.headings # <<>>
  /\ arg.env.tables # <<>>
  /\ ret.val.status = "ok"
  /\ ret.val.content = <<"TITLE:", " ", "\n\n", "MAIN CONTENT:", "\n", "body">>

\* the same when the markup cannot be parsed
C21_WitnessParse ==
  /\ ret.done
  /\ arg.url = UA
  /\ arg.env.article = "ok"
  /\ arg.env.fetch = "parse_error"
  /\ ret.val.status = "ok"
  /\ ret.val.path = "degraded"

(***************************************************************************)
(* The image cache after a harvest                                         *)
(***************************************************************************)

\* the paths of the files of a cache directory
CachePaths(cache) == {img_path_of(f) : f \in cache}

\* the local paths of the accepted images
AcceptedPaths(r) == {r.images[i].local_path : i \in DOMAIN r.images}

\* the elements of the page whose response body fails while it is streamed
StreamFailures(imgs) ==
  {k \in DOMAIN imgs : /\ imgs[k].resp.status = "ok"
                       /\ StartsWith(imgs[k].resp.content_type, <<"image/">>)
                       /\ ~too_large(imgs[k].resp)
                       /\ imgs[k].resp.stream # "ok"}

\* C22: when a harvest that started on an empty cache ends, the files of the
\* cache are exactly the local paths of the accepted images: every discarded
\* candidate's file was deleted and every accepted image's file exists
C22_CacheHoldsOnlyAccepted ==
  ret.done => CachePaths(ret.val.cache) = AcceptedPaths(ret.val)

\* what holds: every accepted image's file exists, and the files that belong
\* to no accepted image are those of the candidates whose stream failed
C22_CacheButStreamFailures ==
  ret.done =>
    /\ AcceptedPaths(ret.val) \subseteq CachePaths(ret.val.cache)
    /\ CachePaths(ret.val.cache) \ AcceptedPaths(ret.val) =
         {img_path_of(generate_image_filename(arg.url,
              extract_image_info(arg.imgs[k], arg.url).url)) :
            k \in StreamFailures(arg.imgs) \cap SeqRange(ret.val.downloads)}

\* a harvest in which a candidate's stream failed: it was requested, it was
\* not accepted, and its file is still in the cache
C22_Witness ==
  /\ ret.done
  /\ \E k \in StreamFailures(arg.imgs) :
       /\ k \in SeqRange(ret.val.downloads)
       /\ k \notin AcceptedElems(ret.val)
       /\ img_path_of(generate_image_filename(arg.url,
             extract_image_info(arg.imgs[k], arg.url).url))
            \in CachePaths(ret.val.cache) \ AcceptedPaths(ret.val)
  /\ ret.val.images # <<>>

(***************************************************************************)
(* The processed flag and the source map (lines 918-919, 943-945, 956)     *)
(***************************************************************************)

\* C23: between handlers the processed flag, which alone enables the
\* question interface, is true exactly when the source map is non-empty
C23_FlagIffSources ==
  pc = "idle" => (websites_processed <=> websites # <<>>)

\* what holds: a non-empty source map has the flag set
C23_SourcesImplyFlag ==
  (pc = "idle" /\ websites # <<>>) => websites_processed

\* a batch was indexed, then every URL of a later batch failed, and a
\* question was taken over the empty source map
C23_Witness ==
  /\ pc = "idle"
  /\ websites = <<>>
  /\ websites_processed
  /\ processing_errors # <<>>
  /\ last.asked
  /\ Len(message_history) = 2

(***************************************************************************)
(* Alternation of the conversation history (lines 1029, 1121-1124)         *)
(***************************************************************************)

\* the role the turn at position i has in a history of whole exchanges
RoleAt(i) == IF i % 2 = 1 THEN "user" ELSE "assistant"

\* C24: the conversation history has even length and its turns alternate
\* user, assistant, starting with a user turn, whatever the outcome of the
\* retrieval and of the completion of the questions handled so far
C24_HistoryAlternates ==
  /\ Len(message_history) % 2 = 0
  /\ \A i \in DOMAIN message_history : message_history[i].role = RoleAt(i)

\* what holds: a run that gets past the retrieval appends the question and
\* its answer, in this order, before the trim
C24_AnsweredRunAppendsPair ==
  [][(last'.asked /\ last'.completed /\ message_history' # message_history) =>
       message_history' =
         trim(message_history
                \o <<Turn("user", last'.user_query),
                     Turn("assistant", last'.response_text)>>)]_vars

\* both searches of a question raised, and the next question was answered:
\* two user turns in a row, then the assistant turn
C24_Witness ==
  /\ Len(message_history) = 3
  /\ message_history[1].role = "user"
  /\ message_history[2].role = "user"
  /\ message_history[3].role = "assistant"
  /\ Len(chat_history) = 1
  /\ last.asked
  /\ last.completed

(***************************************************************************)
(* The two maps of a batch (lines 841-911)                                 *)
(***************************************************************************)

\* C25: when a batch completes, the key sets of the source map and of the
\* processing-error map are disjoint and together are the set of the
\* submitted URLs, also for a list with a repeated URL; the source map and
\* the metadata map have the same key set at all times
C25_MapsPartitionUrls ==
  /\ [][FinishBatch =>
          /\ DictKeySet(websites) \cap DictKeySet(processing_errors) = {}
          /\ DictKeySet(websites) \cup DictKeySet(processing_errors) =
               SeqRange(batch.url_list)]_vars
  /\ [](DictKeySet(websites) = DictKeySet(website_metadata))

\* what holds: the two key sets cover the submitted URLs, a URL is in both
\* only if it is repeated in the list, and the source map and the metadata
\* map have the same keys
C25_MapsCoverUrls ==
  /\ [][FinishBatch =>
          /\ DictKeySet(websites) \cup DictKeySet(processing_errors) =
               SeqRange(batch.url_list)
          /\ \A url \in DictKeySet(websites) \cap DictKeySet(processing_errors) :
               \E j, k \in DOMAIN batch.url_list :
                 j # k /\ batch.url_list[j] = url /\ batch.url_list[k] = url]_vars
  /\ [](DictKeys(websites) = DictKeys(website_metadata))

\* a batch that lists one URL twice has completed: one attempt was indexed
\* and the other failed, and the URL is a key of both maps
C25_Witness ==
  /\ pc = "idle"
  /\ Len(batch.url_list) = 2
  /\ batch.url_list[1] = batch.url_list[2]
  /\ batch.attempted = batch.url_list
  /\ DictHas(websites, batch.url_list[1])
  /\ DictHas(website_metadata, batch.url_list[1])
  /\ DictHas(processing_errors, batch.url_list[1])

====
